---- MODULE Spec2Model ----
(***************************************************************************)
(* Model of the proxy pool of py-lead-generate: src/modules/proxy.py,      *)
(* class ProxyManager (directory load, selection, quarantine, persistence  *)
(* and the retrying fetch).                                                *)
(*                                                                         *)
(* The object's fields are the variables of the same name.  Every method   *)
(* is an operator on the record Self of those fields, computed as the      *)
(* code computes it; the actions apply the operators.  The random draws of *)
(* get_proxy, the answers of the network and the success of file I/O are   *)
(* the inputs of the actions.                                              *)
(***************************************************************************)
EXTENDS Integers, Sequences, FiniteSets, TLC

VARIABLES
    PROXIES,        \* constants.proxy.PROXIES, the built-in fallback list
    csv_file,       \* the catalogue file at csv_path
    tmp_file,       \* the temporary file at csv_path + ".tmp"
    backup_file,    \* the backup copy at csv_path + ".backup"
    disk_ok,        \* whether the catalogue's directory can be written in this run
    proxy_data,     \* self.proxy_data
    proxies,        \* self.proxies
    bad_proxies,    \* self.bad_proxies
    using_csv,      \* self.using_csv
    stats,          \* self.stats
    call,           \* the most recent public call: its arguments, locals, position, outcome
    hist            \* history of the run since the directory was built

vars == << PROXIES, csv_file, tmp_file, backup_file, disk_ok, proxy_data, proxies,
           bad_proxies, using_csv, stats, call, hist >>

-----------------------------------------------------------------------------
(* Bounds of the model *)

\* rows of the catalogue file at start
MaxRows == 3
\* public calls (fetch, get_proxy, mark_proxy_bad, reload_proxies) per run
MaxCalls == 2
\* rows of the catalogue file of a round trip (load, mark bad, persist, reload)
MaxCatRows == 3
\* tokens of a search-result page
MaxTokens == 3
\* largest max_links given to extract_links
MaxLinks == 2
\* largest max_workers given to scrape_links_content
MaxWorkers == 2
\* largest number of p and div elements of a page
MaxNodes == 3
\* largest number of proxies given to test_proxies_parallel
MaxProxies == 3

(* Program constants *)

\* self.max_retries of the program's one instance, the module-level proxy
max_retries == 3

-----------------------------------------------------------------------------
(* Values *)

None == "None"

Max(a, b) == IF a >= b THEN a ELSE b

Range(s) == { s[i] : i \in 1..Len(s) }

\* The catalogue file at start lists the hosts h1, h2, ... in this order, its
\* rows working except possibly the last one, failed; the latencies are not in
\* file order.
CatalogueIp(k) == "h" \o ToString(k)
CataloguePort == "80"
LatencyOf(k) == 10 * ((3 * k) % 5)

CatalogueRow(k, s) ==
    [ ip |-> CatalogueIp(k), port |-> CataloguePort, response_time_ms |-> LatencyOf(k),
      status |-> s ]

NoFile == [ exists |-> FALSE, rows |-> << >> ]
File(rows) == [ exists |-> TRUE, rows |-> rows ]

Catalogues ==
    { NoFile } \cup
    { File([ k \in 1..n |-> CatalogueRow(k, IF k = n THEN last ELSE "working") ]) :
        n \in 0..MaxRows, last \in { "working", "failed" } }

\* an entry of the fallback list: the URL and what
\* url.replace("socks5://", "").split(":") makes of it
FallbackEntry(host) ==
    [ url |-> "socks5://" \o host \o ":1080", parts |-> << host, "1080" >> ]
MalformedFallbackEntry == [ url |-> "socks5://f9", parts |-> << "f9" >> ]

BuiltInList == << FallbackEntry("f1"), MalformedFallbackEntry >>

\* the lists tried: an empty one, for the catalogues it matters to at start
\* (those with no eligible row), and one with a well-formed and a malformed entry
FallbackLists(file) ==
    IF file.exists /\ \E k \in 1..Len(file.rows) : file.rows[k].status = "working"
    THEN { BuiltInList } ELSE { << >>, BuiltInList }

-----------------------------------------------------------------------------
(* ProxyManager._load_fallback_proxies *)

RECURSIVE load_fallback_proxies(_)
load_fallback_proxies(list) ==
    IF list = << >> THEN << >>
    ELSE LET e == Head(list)
             rest == load_fallback_proxies(Tail(list))
         IN IF Len(e.parts) = 2
            THEN << [ url |-> e.url, ip |-> e.parts[1], port |-> e.parts[2],
                      response_time_ms |-> 0, status |-> "working",
                      row |-> << >> ] >> \o rest
            ELSE rest

(* list.sort(key = response_time_ms): stable, ascending *)

RECURSIVE InsertByLatency(_, _)
InsertByLatency(p, sorted) ==
    IF sorted = << >> THEN << p >>
    ELSE IF p.response_time_ms < Head(sorted).response_time_ms
         THEN << p >> \o sorted
         ELSE << Head(sorted) >> \o InsertByLatency(p, Tail(sorted))

\* a load that leaves the records in file order
SortByLatency_file_order(s) == s

RECURSIVE SortByLatency(_)
SortByLatency(s) ==
    IF s = << >> THEN << >>
    ELSE InsertByLatency(s[Len(s)], SortByLatency(SubSeq(s, 1, Len(s) - 1)))

(* ProxyManager._load_proxies: the rows with ip, port and status working, *)
(* in ascending latency; the fallback list when there is no file or no    *)
(* such row.  A record keeps its row as << row >>, a fallback record has   *)
(* row None, << >>.                                                        *)

\* row.get(key, default) on a row of csv.DictReader: a column the file does not
\* have is a key the row does not have
Get(row, key, default) == IF key \in DOMAIN row THEN row[key] ELSE default

\* a response_time_ms cell that float() rejects (an empty or non-numeric cell)
Unparsable == -1

\* the ip, port and status of a row, before .strip(); a row shorter than the
\* header has None in the cells it lacks
RowIp(row) == Get(row, "ip", "")
RowPort(row) == Get(row, "port", "")
RowStatus(row) == Get(row, "status", "working")
RowLatency(row) == Get(row, "response_time_ms", 0)

RowEligible(row) == RowIp(row) # "" /\ RowPort(row) # "" /\ RowStatus(row) = "working"

\* the row raises: .strip() of None (AttributeError), or float() of a cell it
\* rejects, which is evaluated for the eligible rows only
RowRaises(row) ==
    \/ RowIp(row) = None \/ RowPort(row) = None \/ RowStatus(row) = None
    \/ RowEligible(row) /\ RowLatency(row) = Unparsable

RowRecord(row) ==
    [ url |-> "socks5://" \o RowIp(row) \o ":" \o RowPort(row),
      ip |-> RowIp(row), port |-> RowPort(row),
      response_time_ms |-> RowLatency(row), status |-> RowStatus(row),
      row |-> << row >> ]

RECURSIVE RowRecords(_)
RowRecords(rows) ==
    IF rows = << >> THEN << >>
    ELSE IF RowEligible(Head(rows))
         THEN << RowRecord(Head(rows)) >> \o RowRecords(Tail(rows))
         ELSE RowRecords(Tail(rows))

load_proxies(file, fallback) ==
    IF ~ file.exists THEN load_fallback_proxies(fallback)
    ELSE IF \E k \in 1..Len(file.rows) : RowRaises(file.rows[k])
         THEN load_fallback_proxies(fallback)
    ELSE LET data == RowRecords(file.rows)
         IN IF data = << >> THEN load_fallback_proxies(fallback)
            ELSE SortByLatency(data)

Urls(data) == [ i \in 1..Len(data) |-> data[i].url ]

-----------------------------------------------------------------------------
(* The object: the fields the methods read and write, and the two files *)

Self ==
    [ proxy_data |-> proxy_data, proxies |-> proxies, bad_proxies |-> bad_proxies,
      stats |-> stats, csv_file |-> csv_file, tmp_file |-> tmp_file,
      backup_file |-> backup_file ]

(* ProxyManager.get_available_proxy_count and get_proxy_count *)

get_available_proxy_count(self) ==
    Len(SelectSeq(self.proxies, LAMBDA u : u \notin self.bad_proxies))

get_proxy_count(self) == Len(self.proxies)

(* ProxyManager.get_proxy.  fast is the draw random.random() < 0.8, i the   *)
(* position random.choice takes in the list it is given.  The value is the  *)
(* object after the call and the URL returned.                              *)

available_proxies(self) ==
    SelectSeq(self.proxy_data, LAMBDA p : p.url \notin self.bad_proxies)

\* get_proxy without the reset of the bad proxy list: no candidate, no proxy
get_proxy_without_reset(self, prefer_fast, fast, i) ==
    IF self.proxies = << >> \/ available_proxies(self) = << >>
    THEN [ self |-> self, result |-> None ]
    ELSE LET available == available_proxies(self)
             pool == IF prefer_fast /\ fast
                     THEN SubSeq(available, 1, Max(1, Len(available) \div 3))
                     ELSE available
         IN [ self |-> self, result |-> pool[i].url ]

\* get_proxy that falls back to the whole directory but keeps the bad proxy list
get_proxy_keeping_bad(self, prefer_fast, fast, i) ==
    IF self.proxies = << >> THEN [ self |-> self, result |-> None ]
    ELSE LET filtered == available_proxies(self)
             available == IF filtered = << >> THEN self.proxy_data ELSE filtered
             pool == IF prefer_fast /\ fast
                     THEN SubSeq(available, 1, Max(1, Len(available) \div 3))
                     ELSE available
         IN [ self |-> self, result |-> pool[i].url ]

\* get_proxy that chooses among all records, bad or not
get_proxy_ignoring_bad(self, prefer_fast, fast, i) ==
    IF self.proxies = << >> THEN [ self |-> self, result |-> None ]
    ELSE LET reset == available_proxies(self) = << >>
             self1 == IF reset THEN [ self EXCEPT !.bad_proxies = {} ] ELSE self
             all == self.proxy_data
         IN [ self |-> self1, result |-> all[((i - 1) % Len(all)) + 1].url ]

\* get_proxy whose reset of the bad proxy list sets every record to working again
get_proxy_reviving(self, prefer_fast, fast, i) ==
    IF self.proxies = << >> THEN [ self |-> self, result |-> None ]
    ELSE LET filtered == available_proxies(self)
             reset == filtered = << >>
             self1 == IF reset
                      THEN [ self EXCEPT !.bad_proxies = {},
                                         !.proxy_data = [ k \in DOMAIN @ |->
                                                            [ @[k] EXCEPT !.status = "working" ] ] ]
                      ELSE self
             available == IF reset THEN self.proxy_data ELSE filtered
             pool == IF prefer_fast /\ fast
                     THEN SubSeq(available, 1, Max(1, Len(available) \div 3))
                     ELSE available
         IN [ self |-> self1, result |-> pool[i].url ]

\* get_proxy that counts a request
get_proxy_counting(self, prefer_fast, fast, i) ==
    IF self.proxies = << >> THEN [ self |-> self, result |-> None ]
    ELSE LET filtered == available_proxies(self)
             reset == filtered = << >>
             self1 == IF reset THEN [ self EXCEPT !.bad_proxies = {} ] ELSE self
             available == IF reset THEN self.proxy_data ELSE filtered
             pool == IF prefer_fast /\ fast
                     THEN SubSeq(available, 1, Max(1, Len(available) \div 3))
                     ELSE available
         IN [ self |-> [ self1 EXCEPT !.stats.total_requests = @ + 1 ],
              result |-> pool[i].url ]

\* get_proxy whose fast branch chooses among the slowest third
get_proxy_slowest_third(self, prefer_fast, fast, i) ==
    IF self.proxies = << >> THEN [ self |-> self, result |-> None ]
    ELSE LET filtered == available_proxies(self)
             reset == filtered = << >>
             self1 == IF reset THEN [ self EXCEPT !.bad_proxies = {} ] ELSE self
             available == IF reset THEN self.proxy_data ELSE filtered
             top_30_percent == Max(1, Len(available) \div 3)
             pool == IF prefer_fast /\ fast
                     THEN SubSeq(available, Len(available) - top_30_percent + 1, Len(available))
                     ELSE available
         IN [ self |-> self1, result |-> pool[i].url ]

get_proxy(self, prefer_fast, fast, i) ==
    IF self.proxies = << >> THEN [ self |-> self, result |-> None ]
    ELSE LET filtered == available_proxies(self)
             reset == filtered = << >>
             self1 == IF reset THEN [ self EXCEPT !.bad_proxies = {} ] ELSE self
             available == IF reset THEN self.proxy_data ELSE filtered
             top_30_percent == Max(1, Len(available) \div 3)
             pool == IF prefer_fast /\ fast
                     THEN SubSeq(available, 1, top_30_percent)
                     ELSE available
         IN [ self |-> self1, result |-> pool[i].url ]

\* the draws a call can make: either value of fast where it is drawn, and a
\* position in the list random.choice is given
Candidates(self) ==
    IF available_proxies(self) = << >> THEN self.proxy_data ELSE available_proxies(self)

Draws(self, prefer_fast) ==
    IF self.proxies = << >> THEN { << FALSE, 1 >> }
    ELSE { << TRUE, i >> : i \in { j \in 1..Max(1, Len(Candidates(self)) \div 3) : prefer_fast } }
         \cup { << FALSE, i >> : i \in 1..Len(Candidates(self)) }

(* ProxyManager._save_proxies_to_csv, step by step.  io says which of the   *)
(* file operations succeed: the backup copy, the opening of the temporary   *)
(* file, the writing of the rows, the replacement of the catalogue and, on  *)
(* the exception path, the removal of the temporary file.  A step takes and *)
(* gives the position in the method, the object with the three files, and   *)
(* the value returned once the position is "return".                        *)

UniformIO(ok) ==
    [ backup_ok |-> ok, open_ok |-> ok, write_ok |-> ok, replace_ok |-> ok,
      remove_ok |-> ok ]

\* within a run of the pool the file operations all succeed or all fail
IOs == { UniformIO(disk_ok) }

\* each file operation succeeds or fails on its own
EveryIO ==
    [ backup_ok : BOOLEAN, open_ok : BOOLEAN, write_ok : BOOLEAN, replace_ok : BOOLEAN,
      remove_ok : BOOLEAN ]

\* the columns csv.DictWriter is given, those of them the model keeps
fieldnames == { "ip", "port", "response_time_ms", "status" }

MarkSaved(self, p) ==
    IF p.row # << >> /\ p.url \in self.bad_proxies
    THEN [ p EXCEPT !.status = "failed", !.row = << [ k \in DOMAIN p.row[1] \cup { "status" } |->
                                                       IF k = "status" THEN "failed" ELSE p.row[1][k] ] >> ]
    ELSE p

\* writer.writerow(row): a key outside fieldnames raises ValueError
RowWritable(row) == DOMAIN row \subseteq fieldnames

\* the cell written for a key: "" for a key the row lacks and for None, which
\* as a response_time_ms cell is one float() rejects
WrittenCell(row, k) ==
    IF k = "response_time_ms"
    THEN Get(row, k, Unparsable)
    ELSE IF Get(row, k, "") = None THEN "" ELSE Get(row, k, "")

WrittenRow(row) == [ k \in fieldnames |-> WrittenCell(row, k) ]

RECURSIVE RowsOf(_)
RowsOf(data) ==
    IF data = << >> THEN << >>
    ELSE (IF Head(data).row = << >> THEN << >> ELSE << WrittenRow(Head(data).row[1]) >>)
         \o RowsOf(Tail(data))

\* the rows written before the first one that cannot be
RECURSIVE WritablePrefix(_)
WritablePrefix(data) ==
    IF data = << >> THEN << >>
    ELSE IF Head(data).row = << >> THEN WritablePrefix(Tail(data))
    ELSE IF RowWritable(Head(data).row[1])
         THEN << WrittenRow(Head(data).row[1]) >> \o WritablePrefix(Tail(data))
         ELSE << >>

AllWritable(data) ==
    \A k \in 1..Len(data) : data[k].row = << >> \/ RowWritable(data[k].row[1])

SaveAt(pc, self, result) == [ pc |-> pc, self |-> self, result |-> result ]

\* nothing to save for a directory built from the fallback list; else the
\* records of the quarantined endpoints get status failed
save_begin(self) ==
    LET proxies_with_csv_data == SelectSeq(self.proxy_data, LAMBDA p : p.row # << >>)
    IN IF proxies_with_csv_data = << >> THEN SaveAt("return", self, FALSE)
       ELSE SaveAt("backup",
                   [ self EXCEPT !.proxy_data =
                       [ k \in 1..Len(self.proxy_data) |-> MarkSaved(self, self.proxy_data[k]) ] ],
                   FALSE)

\* shutil.copy2 of the catalogue, when there is one; its failure is swallowed
save_backup(s, io) ==
    SaveAt("open",
           IF s.self.csv_file.exists /\ io.backup_ok
           THEN [ s.self EXCEPT !.backup_file = s.self.csv_file ] ELSE s.self,
           FALSE)

\* open(temp_path, 'w') creates or truncates the temporary file
save_open(s, io) ==
    IF io.open_ok THEN SaveAt("write", [ s.self EXCEPT !.tmp_file = File(<< >>) ], FALSE)
    ELSE SaveAt("except", s.self, FALSE)

\* a save that writes the rows into the catalogue itself as well
save_write_in_place(s, io) ==
    IF ~ io.write_ok THEN SaveAt("except", s.self, FALSE)
    ELSE IF ~ AllWritable(s.self.proxy_data)
         THEN SaveAt("except",
                     [ s.self EXCEPT !.tmp_file = File(WritablePrefix(s.self.proxy_data)),
                                     !.csv_file = File(WritablePrefix(s.self.proxy_data)) ],
                     FALSE)
    ELSE SaveAt("replace", [ s.self EXCEPT !.tmp_file = File(RowsOf(s.self.proxy_data)),
                                           !.csv_file = File(RowsOf(s.self.proxy_data)) ], FALSE)

\* the header and the rows, in the order of the directory
save_write(s, io) ==
    IF ~ io.write_ok THEN SaveAt("except", s.self, FALSE)
    ELSE IF ~ AllWritable(s.self.proxy_data)
         THEN SaveAt("except",
                     [ s.self EXCEPT !.tmp_file = File(WritablePrefix(s.self.proxy_data)) ],
                     FALSE)
    ELSE SaveAt("replace", [ s.self EXCEPT !.tmp_file = File(RowsOf(s.self.proxy_data)) ], FALSE)

\* a save that returns True without os.replace: the rows stay in the
\* temporary file
save_replace_unrenamed(s, io) ==
    IF io.replace_ok THEN SaveAt("return", s.self, TRUE)
    ELSE SaveAt("except", s.self, FALSE)

\* os.replace(temp_path, csv_path), then return True
save_replace(s, io) ==
    IF io.replace_ok
    THEN SaveAt("return", [ s.self EXCEPT !.csv_file = s.self.tmp_file, !.tmp_file = NoFile ], TRUE)
    ELSE SaveAt("except", s.self, FALSE)

\* except Exception: remove the temporary file if it exists, whatever comes of
\* it, and return False
save_except(s, io) ==
    SaveAt("return",
           IF s.self.tmp_file.exists /\ io.remove_ok
           THEN [ s.self EXCEPT !.tmp_file = NoFile ] ELSE s.self,
           FALSE)

save_step(s, io) ==
    CASE s.pc = "backup" -> save_backup(s, io)
      [] s.pc = "open" -> save_open(s, io)
      [] s.pc = "write" -> save_write(s, io)
      [] s.pc = "replace" -> save_replace(s, io)
      [] s.pc = "except" -> save_except(s, io)
      [] OTHER -> s

RECURSIVE save_run(_, _)
save_run(s, io) == IF s.pc = "return" THEN s ELSE save_run(save_step(s, io), io)

save_proxies_to_csv(self, io) ==
    LET s == save_run(save_begin(self), io)
    IN [ self |-> s.self, result |-> s.result ]

(* ProxyManager.mark_proxy_bad *)

Falsy(proxy) == proxy = None \/ proxy = ""

FirstIndex(data, url) ==
    IF \E k \in 1..Len(data) : data[k].url = url
    THEN CHOOSE k \in 1..Len(data) :
            /\ data[k].url = url
            /\ \A j \in 1..(k - 1) : data[j].url # url
    ELSE 0

MarkEntryFailed(p) ==
    [ p EXCEPT !.status = "failed",
               !.row = IF p.row # << >>
                       THEN << [ k \in DOMAIN p.row[1] \cup { "status" } |->
                                   IF k = "status" THEN "failed" ELSE p.row[1][k] ] >>
                       ELSE p.row ]

\* the body of mark_proxy_bad up to the persistence without the assignment
\* proxy_entry['status'] = 'failed'
mark_entry_bad_set_only(self, proxy) ==
    [ self EXCEPT !.bad_proxies = @ \cup { proxy },
                  !.stats.proxies_marked_bad = @ + 1 ]

\* the body of mark_proxy_bad after the early return, up to the persistence
mark_entry_bad(self, proxy) ==
    LET k == FirstIndex(self.proxy_data, proxy)
        self1 == [ self EXCEPT !.bad_proxies = @ \cup { proxy },
                               !.stats.proxies_marked_bad = @ + 1 ]
    IN IF k # 0
       THEN [ self1 EXCEPT !.proxy_data[k] = MarkEntryFailed(@) ]
       ELSE self1

\* if proxy_entry and proxy_entry['row'] is not None
MarkPersists(self, proxy) ==
    LET k == FirstIndex(self.proxy_data, proxy)
    IN k # 0 /\ self.proxy_data[k].row # << >>

\* the body of mark_proxy_bad after the early return
mark_found_bad(self, proxy, io) ==
    LET self2 == mark_entry_bad(self, proxy)
    IN IF MarkPersists(self2, proxy)
       THEN save_proxies_to_csv(self2, io).self
       ELSE self2

\* mark_proxy_bad without the test "proxy in self.bad_proxies"
mark_proxy_bad_again(self, proxy, io) ==
    IF Falsy(proxy) THEN self ELSE mark_found_bad(self, proxy, io)

\* mark_proxy_bad without the test "not proxy"
mark_proxy_bad_none(self, proxy, io) ==
    IF proxy \in self.bad_proxies THEN self ELSE mark_found_bad(self, proxy, io)

mark_proxy_bad(self, proxy, io) ==
    IF Falsy(proxy) \/ proxy \in self.bad_proxies THEN self
    ELSE mark_found_bad(self, proxy, io)

(* ProxyManager.reload_proxies *)

\* a reload that keeps the bad proxy list
reload_proxies_keeping_bad(self, fallback) ==
    LET data == load_proxies(self.csv_file, fallback)
    IN [ self |-> [ self EXCEPT !.proxy_data = data, !.proxies = Urls(data) ],
         result |-> Len(data) ]

reload_proxies(self, fallback) ==
    LET data == load_proxies(self.csv_file, fallback)
    IN [ self |-> [ self EXCEPT !.bad_proxies = {}, !.proxy_data = data,
                                !.proxies = Urls(data) ],
         result |-> Len(data) ]

-----------------------------------------------------------------------------
(* utils.helpers.is_search_blocked.  A body is the sequence of its words;   *)
(* the test lower-cases the body and looks for any of the indicators.       *)

block_indicators ==
    { "unfortunately, bots use duckduckgo too",
      "please complete the following challenge",
      "select all squares containing a duck",
      "anomaly-modal__puzzle",
      "error-lite@duckduckgo.com",
      "cloudflare",
      "captcha" }

Lower(w) == CASE w = "CAPTCHA" -> "captcha" [] w = "Cloudflare" -> "cloudflare" [] OTHER -> w

is_search_blocked(html) ==
    html # << >> /\ \E k \in 1..Len(html) : Lower(html[k]) \in block_indicators

(* utils.helpers.extract_real_url and Scraper.extract_links.  A page is the  *)
(* sequence of its words and anchors.  An anchor of class result__a has a    *)
(* DuckDuckGo redirect link, a plain link or no href; any other anchor only  *)
(* stands for the element find_next("a") finds.                              *)

RedirectAnchor == "<a class=result__a href=//duckduckgo.com/l/?uddg=u1>"
PlainAnchor == "<a class=result__a href=u2>"
BareAnchor == "<a class=result__a>"
SnippetAnchor == "<a class=result__snippet>"

ResultAnchors == { RedirectAnchor, PlainAnchor, BareAnchor }
Anchors == ResultAnchors \cup { SnippetAnchor }

\* a.get("href")
Href(a) ==
    CASE a = RedirectAnchor -> "//duckduckgo.com/l/?uddg=u1"
      [] a = PlainAnchor -> "u2"
      [] OTHER -> None

\* a.get_text(strip=True)
GetText(a) ==
    CASE a = RedirectAnchor -> "first result"
      [] a = PlainAnchor -> "second result"
      [] a = SnippetAnchor -> "snippet"
      [] OTHER -> ""

extract_real_url(duck_link) ==
    IF duck_link = "//duckduckgo.com/l/?uddg=u1" THEN "u1" ELSE duck_link

\* a.find_next("a"): the position of the first anchor after k, 0 if none
RECURSIVE find_next(_, _)
find_next(html, k) ==
    IF k >= Len(html) THEN 0
    ELSE IF html[k + 1] \in Anchors THEN k + 1
    ELSE find_next(html, k + 1)

\* the loop over the anchors, from position k on
RECURSIVE ExtractFrom(_, _, _, _)
ExtractFrom(html, k, out, max_links) ==
    IF k > Len(html) THEN out
    ELSE IF html[k] \notin ResultAnchors \/ Falsy(Href(html[k]))
         THEN ExtractFrom(html, k + 1, out, max_links)
    ELSE LET snippet_el == find_next(html, k)
             out1 == Append(out, [ url |-> extract_real_url(Href(html[k])),
                                   title |-> GetText(html[k]),
                                   snippet |-> IF snippet_el # 0
                                               THEN GetText(html[snippet_el]) ELSE "" ])
         IN IF Len(out1) >= max_links THEN out1
            ELSE ExtractFrom(html, k + 1, out1, max_links)

\* extract_links without the test for a blocked page
extract_links_unchecked(html, max_links) ==
    IF html = << >> THEN << >> ELSE ExtractFrom(html, 1, << >>, max_links)

extract_links(html, max_links) ==
    IF html = << >> \/ is_search_blocked(html) THEN << >>
    ELSE ExtractFrom(html, 1, << >>, max_links)

(* Scraper._fetch_with_session.  What session.get does with a request is    *)
(* given: it raises, or it answers with a status, a declared content length  *)
(* or none, and a body whose reading (r.text, the response being streamed)   *)
(* succeeds or times out.  A body is the sequence of its elements.           *)

\* no content-length header
NoContentLength == -1
\* a content-length header int() rejects
InvalidLength == -2
\* pages that declare more are skipped
MaxContentLength == 2000000

\* a try block whose guard also refuses a declared length of exactly the limit
TryRequest_inclusive(r) ==
    IF r.kind # "response" THEN [ raised |-> r.kind, text |-> << >>, body_read |-> FALSE ]
    ELSE IF r.content_length = InvalidLength
         THEN [ raised |-> "Exception", text |-> << >>, body_read |-> FALSE ]
    ELSE IF r.content_length # NoContentLength /\ r.content_length >= MaxContentLength
         THEN [ raised |-> None, text |-> << >>, body_read |-> FALSE ]
    ELSE IF r.status_code = 200
         THEN IF r.read # "ok" THEN [ raised |-> r.read, text |-> << >>, body_read |-> TRUE ]
              ELSE [ raised |-> None, text |-> r.text, body_read |-> TRUE ]
    ELSE [ raised |-> None, text |-> << >>, body_read |-> FALSE ]

\* the end of one try block: what it raises, None if nothing, what it
\* returns, the empty text when it falls through to the last return, and
\* whether r.text was evaluated, which reads the body of the streamed response
TryRequest(r) ==
    IF r.kind # "response" THEN [ raised |-> r.kind, text |-> << >>, body_read |-> FALSE ]
    ELSE IF r.content_length = InvalidLength
         THEN [ raised |-> "Exception", text |-> << >>, body_read |-> FALSE ]
    ELSE IF r.content_length # NoContentLength /\ r.content_length > MaxContentLength
         THEN [ raised |-> None, text |-> << >>, body_read |-> FALSE ]
    ELSE IF r.status_code = 200
         THEN IF r.read # "ok" THEN [ raised |-> r.read, text |-> << >>, body_read |-> TRUE ]
              ELSE [ raised |-> None, text |-> r.text, body_read |-> TRUE ]
    ELSE [ raised |-> None, text |-> << >>, body_read |-> FALSE ]

\* a page fetch that tries again after any exception
fetch_with_session_retrying(r1, r2) ==
    LET first == TryRequest(r1)
    IN IF first.raised # None
       THEN [ text |-> IF TryRequest(r2).raised = None THEN TryRequest(r2).text ELSE << >>,
              requests |-> << r1, r2 >>,
              reads |-> << first.body_read, TryRequest(r2).body_read >> ]
       ELSE [ text |-> first.text, requests |-> << r1 >>, reads |-> << first.body_read >> ]

\* r1 is what the first request does, r2 what the retry does if it is made
fetch_with_session(r1, r2) ==
    LET first == TryRequest(r1)
    IN IF first.raised = "Timeout"
       THEN [ text |-> IF TryRequest(r2).raised = None THEN TryRequest(r2).text ELSE << >>,
              requests |-> << r1, r2 >>,
              reads |-> << first.body_read, TryRequest(r2).body_read >> ]
       ELSE [ text |-> IF first.raised = None THEN first.text ELSE << >>,
              requests |-> << r1 >>, reads |-> << first.body_read >> ]

(* Scraper.extract_relevant_content.  An element of a page is a p or a div: *)
(* sel says which container it is in (main, article, content for .content    *)
(* and .main-content, body for none of them), text names its text, len is    *)
(* the length of that text and words its number of words; nav_phrase and     *)
(* keyword say whether the text holds a phrase of the navigational pattern   *)
(* and one of KEYWORDS.                                                      *)

\* the default of max_chars
max_chars == 2000

content_selectors == << "main", "article", "content", "body" >>

\* soup.select(selector): the last selector, "p, div", matches every element
Select(html, selector) ==
    SelectSeq(html, LAMBDA el : selector = "body" \/ el.sel = selector)

is_navigational_content(el) == el.words >= 5 /\ el.nav_phrase

contains_keywords(el) == el.keyword

\* the tests that skip an element
Skipped(el, seen) ==
    \/ el.len < 10
    \/ is_navigational_content(el) \/ ~ contains_keywords(el)
    \/ el.text \in seen

\* the loop over the elements of selector n, from position k on; acc is
\* useful_content and total_length, with the elements looked at so far
RECURSIVE ScanParagraphs(_, _, _, _, _)
ScanParagraphs(paragraphs, n, k, acc, budget) ==
    IF k > Len(paragraphs) THEN acc
    ELSE LET seen == [ acc EXCEPT !.scanned = Append(@, [ selector |-> n,
                                                          node |-> paragraphs[k] ]) ]
         IN IF Skipped(paragraphs[k], Range(acc.useful_content))
            THEN ScanParagraphs(paragraphs, n, k + 1, seen, budget)
            ELSE LET acc1 == [ seen EXCEPT !.useful_content = Append(@, paragraphs[k].text),
                                           !.total_length = @ + paragraphs[k].len ]
                 IN IF acc1.total_length >= budget THEN acc1
                    ELSE ScanParagraphs(paragraphs, n, k + 1, acc1, budget)

\* the loop over the selectors that goes on to the next selector whatever
\* the length reached
RECURSIVE ScanSelectors_all(_, _, _, _)
ScanSelectors_all(html, n, acc, budget) ==
    IF n > Len(content_selectors) THEN acc
    ELSE ScanSelectors_all(html, n + 1,
                           ScanParagraphs(Select(html, content_selectors[n]), n, 1, acc, budget),
                           budget)

\* the loop over the selectors, from selector n on
RECURSIVE ScanSelectors(_, _, _, _)
ScanSelectors(html, n, acc, budget) ==
    IF n > Len(content_selectors) \/ acc.total_length >= budget THEN acc
    ELSE ScanSelectors(html, n + 1,
                       ScanParagraphs(Select(html, content_selectors[n]), n, 1, acc, budget),
                       budget)

NoContent == [ fragments |-> << >>, length |-> 0, scanned |-> << >> ]

\* " ".join(useful_content), cut at the budget: the texts joined, the
\* length of the result and the elements looked at
extract_relevant_content(html, budget) ==
    IF html = << >> THEN NoContent
    ELSE LET acc == ScanSelectors(html, 1, [ useful_content |-> << >>, total_length |-> 0,
                                             scanned |-> << >> ], budget)
             n == Len(acc.useful_content)
             joined == IF n = 0 THEN 0 ELSE acc.total_length + (n - 1)
         IN [ fragments |-> acc.useful_content,
              length |-> IF joined > budget THEN budget ELSE joined,
              scanned |-> acc.scanned ]

(* Scraper._scrape_single_link.  session_ok says whether the session is set  *)
(* up without an exception, parse_ok whether the extraction of the content   *)
(* raises none.  The value says whether the task raised and holds the page   *)
(* returned, if one is.                                                      *)

NoPage == [ raised |-> FALSE, page |-> << >> ]

\* a task that returns a page whatever content was found
scrape_single_link_any_content(link, session_ok, parse_ok, r1, r2) ==
    IF ~ session_ok THEN [ raised |-> TRUE, page |-> << >> ]
    ELSE LET html == fetch_with_session(r1, r2).text
         IN IF html = << >> THEN NoPage
            ELSE IF ~ parse_ok THEN NoPage
            ELSE [ raised |-> FALSE,
                   page |-> << [ url |-> link.url, title |-> link.title,
                                 snippet |-> link.snippet,
                                 content |-> extract_relevant_content(html, max_chars) ] >> ]

scrape_single_link(link, session_ok, parse_ok, r1, r2) ==
    IF ~ session_ok THEN [ raised |-> TRUE, page |-> << >> ]
    ELSE LET html == fetch_with_session(r1, r2).text
         IN IF html = << >> THEN NoPage
            ELSE IF ~ parse_ok THEN NoPage
            ELSE LET content == extract_relevant_content(html, max_chars)
                 IN IF content.length > 0
                    THEN [ raised |-> FALSE,
                           page |-> << [ url |-> link.url, title |-> link.title,
                                         snippet |-> link.snippet, content |-> content ] >> ]
                    ELSE NoPage

(* What requests.get can do: answer with a status and a body, or raise *)

Bodies == { << "results" >>, << "solve", "CAPTCHA" >> }

Responses ==
    [ kind : { "response" }, status_code : { 200, 503 }, text : Bodies ]
    \cup [ kind : { "ProxyError", "Exception" }, status_code : { 0 }, text : { << >> } ]

HttpError(code) == "HTTP " \o ToString(code)

\* no request made yet
NoResponse == [ kind |-> "none", status_code |-> 0, text |-> << >> ]

\* the same with a second status of the 2xx class and with each exception
\* class fetch names
EveryResponse ==
    [ kind : { "response" }, status_code : { 200, 204, 503 }, text : Bodies ]
    \cup [ kind : { "ProxyError", "Timeout", "ConnectionError", "Exception" },
           status_code : { 0 }, text : { << >> } ]

-----------------------------------------------------------------------------
(* The exceptions of modules.exceptions.  An exception has its class, the    *)
(* topic it was built with and its message; the message of a                 *)
(* ProxyFailureError is held by its parts: the text put before another       *)
(* message, the text of fetch, the counts of the pool and the last error.    *)

NoMessage == [ prefix |-> "", text |-> "", available |-> 0, total |-> 0, last_error |-> None ]

NoError == [ kind |-> "none", topic |-> "", message |-> NoMessage ]

\* an exception built with a topic and no message: the default message
DefaultError(kind, topic) ==
    [ kind |-> kind, topic |-> topic, message |-> [ NoMessage EXCEPT !.text = kind ] ]

\* the ProxyFailureError raised by fetch(url) at the end c of the call: with
\* no proxy the message has the two counts, after the retries it has the
\* counts and the last error
FetchError(c, url) ==
    [ kind |-> "ProxyFailureError", topic |-> url,
      message |-> [ prefix |-> "", text |-> c.error,
                    available |-> c.error_available, total |-> c.error_total,
                    last_error |-> IF c.error = "No proxies available"
                                   THEN None ELSE c.last_error ] ]

\* run_workflow's dictionary before it returns
NoOutcome == [ success |-> FALSE, error_type |-> "none", is_infrastructure_error |-> "absent",
               message |-> NoMessage, topic |-> "" ]

-----------------------------------------------------------------------------
(* DuckDuckGoProxyTester: the fields test_single_proxy and                   *)
(* test_proxies_parallel share, the holder of self.lock, and of the loop     *)
(* over as_completed the future it is at and the futures it has had          *)

NoTester ==
    [ tested_count |-> 0, working_proxies |-> << >>, failed_proxies |-> << >>,
      lock |-> None, future |-> 0, completed |-> {} ]

-----------------------------------------------------------------------------
(* The record of a public call *)

NoCall ==
    [ op |-> "none", pc |-> "done", arg |-> None, url_ddg |-> FALSE, prefer_fast |-> FALSE,
      fast |-> FALSE,
      harness |-> None,
      attempt |-> 0, last_error |-> None,
      result |-> None, text |-> << >>, count |-> 0, links |-> << >>,
      error |-> None, error_available |-> 0, error_total |-> 0,
      used |-> << >>, io |-> UniformIO(TRUE), resp |-> NoResponse,
      plan |-> << >>, requests |-> << >>, tasks |-> << >>, pages |-> << >>,
      exc |-> NoError, outcome |-> NoOutcome, reads |-> << >>, content |-> NoContent,
      clears |-> << >>, tester |-> NoTester,
      start |-> Self ]

Idle == call.pc # "loop" /\ hist.calls < MaxCalls

Apply(self) ==
    /\ proxy_data' = self.proxy_data
    /\ proxies' = self.proxies
    /\ bad_proxies' = self.bad_proxies
    /\ stats' = self.stats
    /\ csv_file' = self.csv_file
    /\ tmp_file' = self.tmp_file
    /\ backup_file' = self.backup_file

\* the history after the start of a public call
Called(h) == [ h EXCEPT !.calls = @ + 1 ]

\* the history after a selection on self
Selected(h, self) ==
    IF self.proxies # << >> /\ available_proxies(self) = << >>
    THEN [ h EXCEPT !.cleared = TRUE ] ELSE h

\* the history after mark_proxy_bad(proxy)
Marked(h, proxy) ==
    IF Falsy(proxy) THEN h ELSE [ h EXCEPT !.marked = @ \cup { proxy } ]

(* ProxyManager.fetch, one iteration of the loop over range(max_retries):   *)
(* select, request, classify.  c is the call's record, d the draws of       *)
(* get_proxy, resp what requests.get does, io the file operations of a      *)
(* mark_proxy_bad.  call.used lists the endpoints requested so far.         *)

\* fetch that goes on to the next iteration when get_proxy returns None
fetch_no_proxy_continue(self, c) ==
    [ self |-> self,
      call |-> [ c EXCEPT !.attempt = @ + 1, !.used = Append(@, None),
                          !.last_error = "No proxies available" ] ]

\* if not proxy: count the failure and raise ProxyFailureError
fetch_no_proxy(self, c) ==
    [ self |-> [ self EXCEPT !.stats.failed_requests = @ + 1 ],
      call |-> [ c EXCEPT !.pc = "raised", !.error = "No proxies available",
                          !.error_total = get_proxy_count(self),
                          !.error_available = get_available_proxy_count(self) ] ]

\* a failed attempt that does not mark the proxy bad
fetch_failed_unmarked(self, c, proxy, err, io) ==
    [ self |-> self, call |-> [ c EXCEPT !.last_error = err ] ]

\* a failed attempt: mark_proxy_bad(proxy), last_error = err, next iteration
fetch_failed(self, c, proxy, err, io) ==
    [ self |-> mark_proxy_bad(self, proxy, io),
      call |-> [ c EXCEPT !.last_error = err ] ]

\* a success that counts but does not return
fetch_success_continue(self, c, resp) ==
    [ self |-> [ self EXCEPT !.stats.successful_requests = @ + 1 ],
      call |-> [ c EXCEPT !.text = resp.text ] ]

\* Success: count it and return r.text
fetch_success(self, c, resp) ==
    [ self |-> [ self EXCEPT !.stats.successful_requests = @ + 1 ],
      call |-> [ c EXCEPT !.pc = "returned", !.text = resp.text ] ]

\* fetch that takes every status of the 2xx class for a success
fetch_attempt_status_class(self, c, d, resp, io) ==
    LET g == get_proxy(self, c.prefer_fast, d[1], d[2])
        proxy == g.result
        c1 == [ c EXCEPT !.used = Append(@, proxy), !.attempt = @ + 1 ]
    IN IF Falsy(proxy) THEN fetch_no_proxy(g.self, c)
       ELSE IF resp.kind # "response" THEN fetch_failed(g.self, c1, proxy, resp.kind, io)
       ELSE IF resp.status_code \div 100 # 2
            THEN fetch_failed(g.self, c1, proxy, HttpError(resp.status_code), io)
       ELSE IF c.url_ddg /\ is_search_blocked(resp.text)
            THEN fetch_failed(g.self, c1, proxy, "DuckDuckGo blocked this proxy", io)
       ELSE fetch_success(g.self, c1, resp)

\* fetch that does not look for the block indicators
fetch_attempt_unchecked(self, c, d, resp, io) ==
    LET g == get_proxy(self, c.prefer_fast, d[1], d[2])
        proxy == g.result
        c1 == [ c EXCEPT !.used = Append(@, proxy), !.attempt = @ + 1 ]
    IN IF Falsy(proxy) THEN fetch_no_proxy(g.self, c)
       ELSE IF resp.kind # "response" THEN fetch_failed(g.self, c1, proxy, resp.kind, io)
       ELSE IF resp.status_code # 200
            THEN fetch_failed(g.self, c1, proxy, HttpError(resp.status_code), io)
       ELSE fetch_success(g.self, c1, resp)

\* fetch that lets an exception outside the three named classes escape
fetch_attempt_raising(self, c, d, resp, io) ==
    LET g == get_proxy(self, c.prefer_fast, d[1], d[2])
        proxy == g.result
        c1 == [ c EXCEPT !.used = Append(@, proxy), !.attempt = @ + 1 ]
    IN IF Falsy(proxy) THEN fetch_no_proxy(g.self, c)
       ELSE IF resp.kind = "Exception"
            THEN [ self |-> g.self, call |-> [ c1 EXCEPT !.pc = "raised", !.error = resp.kind ] ]
       ELSE IF resp.kind # "response" THEN fetch_failed(g.self, c1, proxy, resp.kind, io)
       ELSE IF resp.status_code # 200
            THEN fetch_failed(g.self, c1, proxy, HttpError(resp.status_code), io)
       ELSE IF c.url_ddg /\ is_search_blocked(resp.text)
            THEN fetch_failed(g.self, c1, proxy, "DuckDuckGo blocked this proxy", io)
       ELSE fetch_success(g.self, c1, resp)

\* call.clears tells, for each attempt, whether its get_proxy emptied the bad
\* proxy list
fetch_attempt(self, c, d, resp, io) ==
    LET g == get_proxy(self, c.prefer_fast, d[1], d[2])
        proxy == g.result
        c1 == [ c EXCEPT !.used = Append(@, proxy), !.attempt = @ + 1,
                         !.clears = Append(@, self.bad_proxies # {} /\ g.self.bad_proxies = {}) ]
    IN IF Falsy(proxy) THEN fetch_no_proxy(g.self, c)
       ELSE IF resp.kind # "response" THEN fetch_failed(g.self, c1, proxy, resp.kind, io)
       ELSE IF resp.status_code # 200
            THEN fetch_failed(g.self, c1, proxy, HttpError(resp.status_code), io)
       ELSE IF c.url_ddg /\ is_search_blocked(resp.text)
            THEN fetch_failed(g.self, c1, proxy, "DuckDuckGo blocked this proxy", io)
       ELSE fetch_success(g.self, c1, resp)

(* ProxyManager.fetch after the loop: all retries exhausted *)

\* the end of fetch without the count of the failure
fetch_exhausted_uncounted(self, c) ==
    [ self |-> self,
      call |-> [ c EXCEPT !.pc = "raised", !.error = "All proxy attempts failed",
                          !.error_available = get_available_proxy_count(self),
                          !.error_total = get_proxy_count(self) ] ]

fetch_exhausted(self, c) ==
    [ self |-> [ self EXCEPT !.stats.failed_requests = @ + 1 ],
      call |-> [ c EXCEPT !.pc = "raised", !.error = "All proxy attempts failed",
                          !.error_available = get_available_proxy_count(self),
                          !.error_total = get_proxy_count(self) ] ]

(* The network of a fetch call.  call.harness = None: any endpoint may      *)
(* answer anything at any attempt.  call.harness = g, an endpoint: the      *)
(* deterministic harness in which g answers 200 with unblocked HTML and     *)
(* every other endpoint answers 503.                                        *)

GoodResponse == [ kind |-> "response", status_code |-> 200, text |-> << "results" >> ]
Http503 == [ kind |-> "response", status_code |-> 503, text |-> << "results" >> ]

Answers(c, proxy) ==
    IF c.harness = None THEN Responses
    ELSE IF proxy = c.harness THEN { GoodResponse } ELSE { Http503 }

-----------------------------------------------------------------------------
(* The state after ProxyManager.__init__ *)

Init ==
    /\ csv_file \in Catalogues
    /\ PROXIES \in FallbackLists(csv_file)
    /\ tmp_file = NoFile
    /\ backup_file = NoFile
    /\ disk_ok \in IF RowRecords(csv_file.rows) = << >> THEN { TRUE } ELSE BOOLEAN
    /\ proxy_data = load_proxies(csv_file, PROXIES)
    /\ proxies = Urls(proxy_data)
    /\ bad_proxies = {}
    /\ using_csv = csv_file.exists
    /\ stats = [ total_requests |-> 0, successful_requests |-> 0,
                 failed_requests |-> 0, proxies_marked_bad |-> 0 ]
    /\ call = NoCall
    /\ hist = [ calls |-> 0, fetches |-> 0, marked |-> {}, cleared |-> FALSE, reloaded |-> FALSE,
                 origin |-> csv_file ]

(* The public calls *)

UrlArgs == { TRUE, FALSE }

MarkArgs == Range(proxies) \cup { None, "socks5://203.0.113.9:1080" }

GetProxyCall(prefer_fast) ==
    /\ Idle
    /\ \E d \in Draws(Self, prefer_fast) :
         LET g == get_proxy(Self, prefer_fast, d[1], d[2])
         IN /\ Apply(g.self)
            /\ call' = [ NoCall EXCEPT !.op = "get_proxy", !.prefer_fast = prefer_fast,
                                       !.fast = prefer_fast /\ d[1], !.result = g.result ]
    /\ hist' = Called(Selected(hist, Self))
    /\ UNCHANGED << PROXIES, disk_ok, using_csv >>

MarkProxyBadCall(proxy) ==
    /\ Idle
    /\ \E io \in IOs : Apply(mark_proxy_bad(Self, proxy, io))
    /\ call' = [ NoCall EXCEPT !.op = "mark_proxy_bad", !.arg = proxy ]
    /\ hist' = Called(Marked(hist, proxy))
    /\ UNCHANGED << PROXIES, disk_ok, using_csv >>

ReloadProxiesCall ==
    /\ Idle
    /\ LET r == reload_proxies(Self, PROXIES)
       IN /\ Apply(r.self)
          /\ call' = [ NoCall EXCEPT !.op = "reload_proxies", !.count = r.result ]
    /\ using_csv' = csv_file.exists
    /\ hist' = Called([ hist EXCEPT !.reloaded = TRUE ])
    /\ UNCHANGED << PROXIES, disk_ok >>

\* fetch is entered with the default prefer_fast = True, as the program's callers do
FetchBegin(url_ddg, harness) ==
    /\ Idle
    /\ Apply([ Self EXCEPT !.stats.total_requests = @ + 1 ])
    /\ call' = [ NoCall EXCEPT !.op = "fetch", !.pc = "loop", !.url_ddg = url_ddg,
                               !.prefer_fast = TRUE, !.harness = harness ]
    /\ hist' = Called([ hist EXCEPT !.fetches = @ + 1 ])
    /\ UNCHANGED << PROXIES, disk_ok, using_csv >>

FetchAttempt ==
    /\ call.pc = "loop"
    /\ call.attempt < max_retries
    /\ \E d \in Draws(Self, call.prefer_fast), io \in IOs :
       \E resp \in Answers(call, get_proxy(Self, call.prefer_fast, d[1], d[2]).result) :
         LET r == fetch_attempt(Self, call, d, resp, io)
         IN /\ Apply(r.self)
            /\ call' = r.call
            /\ hist' = IF r.call.pc = "loop"
                       THEN Marked(Selected(hist, Self), r.call.used[Len(r.call.used)])
                       ELSE Selected(hist, Self)
    /\ UNCHANGED << PROXIES, disk_ok, using_csv >>

FetchExhausted ==
    /\ call.pc = "loop"
    /\ call.attempt >= max_retries
    /\ LET r == fetch_exhausted(Self, call)
       IN Apply(r.self) /\ call' = r.call
    /\ UNCHANGED << PROXIES, disk_ok, using_csv, hist >>

Next ==
    \/ \E prefer_fast \in BOOLEAN : GetProxyCall(prefer_fast)
    \/ \E proxy \in MarkArgs : MarkProxyBadCall(proxy)
    \/ ReloadProxiesCall
    \/ \E url_ddg \in UrlArgs, harness \in { None } \cup Range(proxies) : FetchBegin(url_ddg, harness)
    \/ FetchAttempt
    \/ FetchExhausted

Spec == Init /\ [][Next]_vars

-----------------------------------------------------------------------------
(* The classification of the attempts of fetch: the pool as after            *)
(* ProxyManager.__init__, fetch called once on a search URL or another one,  *)
(* and requests.get free to answer any attempt with any status and body or   *)
(* with any exception.  The call records what the last request did.          *)

FetchOnce(url_ddg) == hist.calls = 0 /\ FetchBegin(url_ddg, None)

FetchAttemptAny ==
    /\ call.pc = "loop"
    /\ call.attempt < max_retries
    /\ \E d \in Draws(Self, call.prefer_fast), io \in IOs, resp \in EveryResponse :
         LET r == fetch_attempt(Self, call, d, resp, io)
         IN /\ Apply(r.self)
            /\ call' = [ r.call EXCEPT !.resp = IF r.call.used = call.used
                                                THEN NoResponse ELSE resp ]
            /\ hist' = IF r.call.pc = "loop"
                       THEN Marked(Selected(hist, Self), r.call.used[Len(r.call.used)])
                       ELSE Selected(hist, Self)
    /\ UNCHANGED << PROXIES, disk_ok, using_csv >>

ClassifyNext ==
    \/ \E url_ddg \in UrlArgs : FetchOnce(url_ddg)
    \/ FetchAttemptAny
    \/ FetchExhausted

Classify == Init /\ [][ClassifyNext]_vars

-----------------------------------------------------------------------------
(* The round trip of a catalogue: the pool is built from a catalogue file,  *)
(* mark_proxy_bad is called once, its _save_proxies_to_csv runs one file    *)
(* operation at a time, and reload_proxies reads the catalogue again.  The  *)
(* catalogue is any file csv.DictReader can be given: its header has the    *)
(* known columns, lacks the status column, or has a column more; a row is   *)
(* working or failed, lacks its port, is shorter than the header, has a     *)
(* latency that is no number, or repeats the host and port of the first     *)
(* row.                                                                     *)

Headers == { "full", "no_status", "extra" }

Shapes(header) ==
    CASE header = "full" -> { "working", "failed", "no_port", "short", "bad_latency", "dup" }
      [] header = "no_status" -> { "working", "no_port", "dup" }
      [] header = "extra" -> { "working", "failed" }

\* the cells of row k under the known columns
ShapedCells(k, shape) ==
    CASE shape = "working" -> CatalogueRow(k, "working")
      [] shape = "failed" -> CatalogueRow(k, "failed")
      [] shape = "no_port" -> [ CatalogueRow(k, "working") EXCEPT !.port = "" ]
      [] shape = "short" ->
           [ ip |-> CatalogueIp(k), port |-> None, response_time_ms |-> Unparsable,
             status |-> None ]
      [] shape = "bad_latency" ->
           [ CatalogueRow(k, "working") EXCEPT !.response_time_ms = Unparsable ]
      [] shape = "dup" -> [ CatalogueRow(k, "working") EXCEPT !.ip = CatalogueIp(1) ]

\* the row csv.DictReader makes of them under the header
ShapedRow(k, shape, header) ==
    LET cells == ShapedCells(k, shape)
    IN CASE header = "full" -> cells
         [] header = "no_status" ->
              [ key \in { "ip", "port", "response_time_ms" } |-> cells[key] ]
         [] header = "extra" ->
              [ key \in DOMAIN cells \cup { "extra" } |->
                  IF key = "extra" THEN "x" ELSE cells[key] ]

ShapedCatalogues ==
    { NoFile } \cup
    UNION { { File([ k \in 1..n |-> ShapedRow(k, sh[k], header) ]) :
                sh \in [ 1..n -> Shapes(header) ] } :
            n \in 0..MaxCatRows, header \in Headers }

RoundTripInit ==
    /\ csv_file \in ShapedCatalogues
    /\ PROXIES \in { << >>, BuiltInList }
    /\ tmp_file = NoFile
    /\ backup_file = NoFile
    /\ disk_ok = TRUE
    /\ proxy_data = load_proxies(csv_file, PROXIES)
    /\ proxies = Urls(proxy_data)
    /\ bad_proxies = {}
    /\ using_csv = csv_file.exists
    /\ stats = [ total_requests |-> 0, successful_requests |-> 0,
                 failed_requests |-> 0, proxies_marked_bad |-> 0 ]
    /\ call = NoCall
    /\ hist = [ calls |-> 0, fetches |-> 0, marked |-> {}, cleared |-> FALSE, reloaded |-> FALSE,
                 origin |-> csv_file ]

\* mark_proxy_bad up to the first file operation of _save_proxies_to_csv
MarkProxyBadBegin(proxy) ==
    /\ call.op = "none"
    /\ LET quiet == Falsy(proxy) \/ proxy \in bad_proxies
           self2 == IF quiet THEN Self ELSE mark_entry_bad(Self, proxy)
           s == IF ~ quiet /\ MarkPersists(self2, proxy)
                THEN save_begin(self2) ELSE SaveAt("done", self2, None)
       IN /\ Apply(s.self)
          /\ call' = [ NoCall EXCEPT !.op = "mark_proxy_bad", !.arg = proxy, !.pc = s.pc,
                                     !.result = s.result ]
    /\ hist' = Called(Marked(hist, proxy))
    /\ UNCHANGED << PROXIES, disk_ok, using_csv >>

\* the file operation at position pc, which succeeds or fails
SaveStepAt(pc) ==
    /\ call.op = "mark_proxy_bad"
    /\ call.pc = pc
    /\ \E ok \in BOOLEAN :
         LET s == save_step(SaveAt(pc, Self, FALSE), UniformIO(ok))
         IN /\ Apply(s.self)
            /\ call' = [ call EXCEPT !.pc = s.pc, !.result = s.result,
                                     !.io = [ key \in DOMAIN call.io |->
                                                IF key = pc \o "_ok" THEN ok ELSE call.io[key] ] ]
    /\ UNCHANGED << PROXIES, disk_ok, using_csv, hist >>

SaveBackup == SaveStepAt("backup")
SaveOpen == SaveStepAt("open")
SaveWrite == SaveStepAt("write")
SaveReplace == SaveStepAt("replace")

\* the exception path: the removal of the temporary file succeeds or fails
SaveExcept ==
    /\ call.op = "mark_proxy_bad"
    /\ call.pc = "except"
    /\ \E ok \in BOOLEAN :
         LET s == save_except(SaveAt("except", Self, FALSE), UniformIO(ok))
         IN /\ Apply(s.self)
            /\ call' = [ call EXCEPT !.pc = s.pc, !.result = s.result, !.io.remove_ok = ok ]
    /\ UNCHANGED << PROXIES, disk_ok, using_csv, hist >>

\* reload_proxies, once mark_proxy_bad has returned or without it
ReloadCatalogue ==
    /\ call.pc \in { "done", "return" }
    /\ ~ hist.reloaded
    /\ LET r == reload_proxies(Self, PROXIES)
       IN /\ Apply(r.self)
          /\ call' = [ NoCall EXCEPT !.op = "reload_proxies", !.count = r.result ]
    /\ using_csv' = csv_file.exists
    /\ hist' = Called([ hist EXCEPT !.reloaded = TRUE ])
    /\ UNCHANGED << PROXIES, disk_ok >>

RoundTripNext ==
    \/ \E proxy \in MarkArgs : MarkProxyBadBegin(proxy)
    \/ SaveBackup
    \/ SaveOpen
    \/ SaveWrite
    \/ SaveReplace
    \/ SaveExcept
    \/ ReloadCatalogue

RoundTrip == RoundTripInit /\ [][RoundTripNext]_vars

-----------------------------------------------------------------------------
(* The extraction of the links of a search-result page: extract_links is     *)
(* given any page of up to MaxTokens words and anchors and any max_links up  *)
(* to MaxLinks.  The pool plays no part and stays empty.                     *)

PageWords == { "results", "CAPTCHA", "cloudflare" }

PageTokens == PageWords \cup Anchors

Pages == UNION { [ 1..n -> PageTokens ] : n \in 0..MaxTokens }

ExtractInit ==
    /\ PROXIES = << >>
    /\ csv_file = NoFile
    /\ tmp_file = NoFile
    /\ backup_file = NoFile
    /\ disk_ok = TRUE
    /\ proxy_data = << >>
    /\ proxies = << >>
    /\ bad_proxies = {}
    /\ using_csv = FALSE
    /\ stats = [ total_requests |-> 0, successful_requests |-> 0,
                 failed_requests |-> 0, proxies_marked_bad |-> 0 ]
    /\ \E html \in Pages, max_links \in 0..MaxLinks :
         call = [ NoCall EXCEPT !.op = "extract_links", !.pc = "called",
                                !.text = html, !.count = max_links ]
    /\ hist = [ calls |-> 0, fetches |-> 0, marked |-> {}, cleared |-> FALSE, reloaded |-> FALSE,
                 origin |-> csv_file ]

ExtractLinksCall ==
    /\ call.op = "extract_links" /\ call.pc = "called"
    /\ call' = [ call EXCEPT !.pc = "returned", !.links = extract_links(call.text, call.count) ]
    /\ hist' = Called(hist)
    /\ UNCHANGED << PROXIES, csv_file, tmp_file, backup_file, disk_ok, proxy_data, proxies,
                    bad_proxies, using_csv, stats >>

ExtractNext == ExtractLinksCall

Extract == ExtractInit /\ [][ExtractNext]_vars

-----------------------------------------------------------------------------
(* A page fetch: _fetch_with_session is called once, what its first request  *)
(* and its retry do being any of the outcomes of a request.  The pool plays  *)
(* no part and stays empty.                                                  *)

\* the bodies a page server sends: nothing, or one paragraph
FetchedBodies == { << >>, << "paragraph" >> }

RequestOutcomes ==
    [ kind : { "response" }, status_code : { 200, 404 },
      content_length : { NoContentLength, InvalidLength, MaxContentLength, MaxContentLength + 1 },
      read : { "ok", "Timeout" }, text : FetchedBodies ]
    \cup [ kind : { "Timeout", "ConnectionError", "Exception" }, status_code : { 0 },
           content_length : { NoContentLength }, read : { "ok" }, text : { << >> } ]

\* the state of a program whose pool is empty and idle
EmptyPool ==
    /\ PROXIES = << >>
    /\ csv_file = NoFile
    /\ tmp_file = NoFile
    /\ backup_file = NoFile
    /\ disk_ok = TRUE
    /\ proxy_data = << >>
    /\ proxies = << >>
    /\ bad_proxies = {}
    /\ using_csv = FALSE
    /\ stats = [ total_requests |-> 0, successful_requests |-> 0,
                 failed_requests |-> 0, proxies_marked_bad |-> 0 ]
    /\ hist = [ calls |-> 0, fetches |-> 0, marked |-> {}, cleared |-> FALSE, reloaded |-> FALSE,
                 origin |-> NoFile ]

SharedCatalogue == File(<< CatalogueRow(1, "working") >>)

\* the state of a program whose pool was loaded from a catalogue of one
\* working row and is idle
LoadedPool ==
    /\ csv_file = SharedCatalogue
    /\ PROXIES = BuiltInList
    /\ tmp_file = NoFile
    /\ backup_file = NoFile
    /\ disk_ok = TRUE
    /\ proxy_data = load_proxies(csv_file, PROXIES)
    /\ proxies = Urls(proxy_data)
    /\ bad_proxies = {}
    /\ using_csv = csv_file.exists
    /\ stats = [ total_requests |-> 0, successful_requests |-> 0,
                 failed_requests |-> 0, proxies_marked_bad |-> 0 ]
    /\ hist = [ calls |-> 0, fetches |-> 0, marked |-> {}, cleared |-> FALSE, reloaded |-> FALSE,
                origin |-> csv_file ]

PoolUnchanged ==
    UNCHANGED << PROXIES, csv_file, tmp_file, backup_file, disk_ok, proxy_data, proxies,
                 bad_proxies, using_csv, stats >>

PageFetchInit ==
    /\ EmptyPool
    /\ \E r1, r2 \in RequestOutcomes :
         call = [ NoCall EXCEPT !.op = "fetch_with_session", !.pc = "called",
                                !.plan = << r1, r2 >> ]

FetchWithSessionCall ==
    /\ call.op = "fetch_with_session" /\ call.pc = "called"
    /\ LET f == fetch_with_session(call.plan[1], call.plan[2])
       IN call' = [ call EXCEPT !.pc = "returned", !.text = f.text,
                                !.requests = f.requests, !.reads = f.reads ]
    /\ hist' = Called(hist)
    /\ PoolUnchanged

PageFetchNext == FetchWithSessionCall

PageFetch == PageFetchInit /\ [][PageFetchNext]_vars

-----------------------------------------------------------------------------
(* The scraping of a list of links: scrape_links_content is called once on   *)
(* up to MaxLinks links with up to MaxWorkers workers.  The executor starts  *)
(* the tasks in the order of their submission, at most max_workers at a      *)
(* time; a task ends when its page fetch and extraction are over, whatever   *)
(* the page server does; the caller collects the finished tasks as they      *)
(* complete and returns when all are collected.                              *)

Fragment(sel, text, len, words, nav_phrase, keyword) ==
    [ sel |-> sel, text |-> text, len |-> len, words |-> words,
      nav_phrase |-> nav_phrase, keyword |-> keyword ]

\* the pages of the servers: one that says nothing of the topic, one with a
\* paragraph about it, one whose paragraphs exceed the budget
ScrapedBodies ==
    { << Fragment("body", "cookies", 300, 40, TRUE, TRUE),
         Fragment("body", "weather", 500, 80, FALSE, FALSE),
         Fragment("body", "hi", 2, 1, FALSE, TRUE) >>,
      << Fragment("main", "services", 900, 120, FALSE, TRUE),
         Fragment("body", "services", 900, 120, FALSE, TRUE) >>,
      << Fragment("article", "founder", 900, 120, FALSE, TRUE),
         Fragment("article", "clients", 1500, 200, FALSE, TRUE),
         Fragment("body", "funding", 900, 120, FALSE, TRUE) >> }

ScrapedOutcomes ==
    [ kind : { "response" }, status_code : { 200 }, content_length : { NoContentLength },
      read : { "ok" }, text : ScrapedBodies ]
    \cup [ kind : { "response" }, status_code : { 404 }, content_length : { NoContentLength },
           read : { "ok" }, text : { << >> } ]
    \cup [ kind : { "Timeout", "ConnectionError" }, status_code : { 0 },
           content_length : { NoContentLength }, read : { "ok" }, text : { << >> } ]

LinkTo(url) == [ url |-> url, title |-> "title of " \o url, snippet |-> "" ]

LinkLists == UNION { [ 1..n -> { LinkTo("u1"), LinkTo("u2") } ] : n \in 0..MaxLinks }

Min(a, b) == IF a <= b THEN a ELSE b

\* max_workers = min(max_workers, len(links))
Workers(c) == Min(c.count, Len(c.links))

PendingTask == [ state |-> "pending", raised |-> FALSE, page |-> << >> ]

Running(c) == { k \in 1..Len(c.tasks) : c.tasks[k].state = "running" }

ScrapeInit ==
    /\ LoadedPool
    /\ \E links \in LinkLists, max_workers \in 1..MaxWorkers :
         call = [ NoCall EXCEPT !.op = "scrape_links_content", !.pc = "called",
                                !.links = links, !.count = max_workers ]

\* if not links: return []; else every task is submitted
ScrapeBegin ==
    /\ call.op = "scrape_links_content" /\ call.pc = "called"
    /\ call' = IF call.links = << >>
               THEN [ call EXCEPT !.pc = "returned" ]
               ELSE [ call EXCEPT !.pc = "pool",
                                  !.tasks = [ k \in 1..Len(call.links) |-> PendingTask ] ]
    /\ hist' = Called(hist)
    /\ PoolUnchanged

\* a free worker takes the first task of the queue
TaskStart(k) ==
    /\ call.op = "scrape_links_content" /\ call.pc = "pool"
    /\ k \in 1..Len(call.tasks)
    /\ call.tasks[k].state = "pending"
    /\ \A j \in 1..(k - 1) : call.tasks[j].state # "pending"
    /\ Cardinality(Running(call)) < Workers(call)
    /\ call' = [ call EXCEPT !.tasks[k].state = "running" ]
    /\ UNCHANGED hist
    /\ PoolUnchanged

\* a task whose page fetch is a fetch call on the pool
TaskEnd_through_pool(k) ==
    /\ call.op = "scrape_links_content" /\ call.pc = "pool"
    /\ k \in Running(call)
    /\ \E session_ok, parse_ok \in BOOLEAN, r1, r2 \in ScrapedOutcomes :
         LET t == scrape_single_link(call.links[k], session_ok, parse_ok, r1, r2)
         IN call' = [ call EXCEPT !.tasks[k] = [ state |-> "finished", raised |-> t.raised,
                                                 page |-> t.page ] ]
    /\ Apply([ Self EXCEPT !.stats.total_requests = @ + 1 ])
    /\ UNCHANGED << PROXIES, disk_ok, using_csv, hist >>

\* _scrape_single_link returns or raises; its requests are made through the
\* session of the task, not through the pool
TaskEnd(k) ==
    /\ call.op = "scrape_links_content" /\ call.pc = "pool"
    /\ k \in Running(call)
    /\ \E session_ok, parse_ok \in BOOLEAN, r1, r2 \in ScrapedOutcomes :
         LET t == scrape_single_link(call.links[k], session_ok, parse_ok, r1, r2)
         IN call' = [ call EXCEPT !.tasks[k] = [ state |-> "finished", raised |-> t.raised,
                                                 page |-> t.page ] ]
    /\ UNCHANGED hist
    /\ PoolUnchanged

\* the body of the loop over as_completed with an exception let through
collect_raising(c, k) ==
    IF c.tasks[k].raised
    THEN [ c EXCEPT !.pc = "raised", !.tasks[k].state = "collected" ]
    ELSE [ c EXCEPT !.tasks[k].state = "collected", !.pages = @ \o c.tasks[k].page ]

\* the body of the loop over as_completed: future.result() raises what the
\* task raised, which is passed over, or gives the page or None
collect(c, k) ==
    IF c.tasks[k].raised
    THEN [ c EXCEPT !.tasks[k].state = "collected" ]
    ELSE [ c EXCEPT !.tasks[k].state = "collected", !.pages = @ \o c.tasks[k].page ]

Collect(k) ==
    /\ call.op = "scrape_links_content" /\ call.pc = "pool"
    /\ k \in 1..Len(call.tasks)
    /\ call.tasks[k].state = "finished"
    /\ call' = collect(call, k)
    /\ UNCHANGED hist
    /\ PoolUnchanged

\* as_completed is exhausted, the executor is shut down, out is returned
ScrapeReturn ==
    /\ call.op = "scrape_links_content" /\ call.pc = "pool"
    /\ \A k \in 1..Len(call.tasks) : call.tasks[k].state = "collected"
    /\ call' = [ call EXCEPT !.pc = "returned" ]
    /\ UNCHANGED hist
    /\ PoolUnchanged

ScrapeNext ==
    \/ ScrapeBegin
    \/ \E k \in 1..MaxLinks : TaskStart(k)
    \/ \E k \in 1..MaxLinks : TaskEnd(k)
    \/ \E k \in 1..MaxLinks : Collect(k)
    \/ ScrapeReturn

Scrape == ScrapeInit /\ [][ScrapeNext]_vars

-----------------------------------------------------------------------------
(* The extraction of the content of a page: extract_relevant_content is      *)
(* called once, with the default budget, on a page of up to MaxNodes         *)
(* elements.                                                                 *)

\* the elements a page is made of: a text too short, a navigational one, one
\* with a navigational phrase in fewer than five words, one without keyword,
\* and paragraphs about the topic in main, in an article and outside both,
\* one text being in main and outside it
Nodes ==
    { Fragment("body", "CEO", 3, 1, FALSE, TRUE),
      Fragment("article", "subscribe", 300, 40, TRUE, TRUE),
      Fragment("body", "login", 14, 2, TRUE, TRUE),
      Fragment("main", "weather", 500, 80, FALSE, FALSE),
      Fragment("main", "services", 900, 120, FALSE, TRUE),
      Fragment("body", "services", 900, 120, FALSE, TRUE),
      Fragment("article", "clients", 1500, 200, FALSE, TRUE),
      Fragment("body", "funding", 900, 120, FALSE, TRUE) }

Htmls == UNION { [ 1..n -> Nodes ] : n \in 0..MaxNodes }

ContentInit ==
    /\ EmptyPool
    /\ \E html \in Htmls :
         call = [ NoCall EXCEPT !.op = "extract_relevant_content", !.pc = "called",
                                !.text = html ]

ExtractContentCall ==
    /\ call.op = "extract_relevant_content" /\ call.pc = "called"
    /\ call' = [ call EXCEPT !.pc = "returned",
                             !.content = extract_relevant_content(call.text, max_chars) ]
    /\ hist' = Called(hist)
    /\ PoolUnchanged

ContentNext == ExtractContentCall

Content == ContentInit /\ [][ContentNext]_vars

-----------------------------------------------------------------------------
(* The workflow: run_workflow calls process_topic, which searches the topic  *)
(* through ProxyManager.fetch, filters the page of results, and goes on to   *)
(* the scraping, the second filter and the language model.  The pool is as   *)
(* after ProxyManager.__init__ and each attempt of fetch may meet any        *)
(* answer.                                                                   *)

Topic == "acme"

DUCK_SEARCH_BASE == "https://duckduckgo.com/html/"

\* Search._format_search_url on the query built for the topic
SearchUrl(topic) == DUCK_SEARCH_BASE \o "?q=" \o topic \o "+company+profile&s=0"

MIN_CONTENT_WORDS == 20

\* len(" ".join(words))
RECURSIVE Chars(_)
Chars(text) ==
    IF text = << >> THEN 0
    ELSE Len(Head(text)) + (IF Len(text) > 1 THEN 1 ELSE 0) + Chars(Tail(text))

is_sufficient_content(text) ==
    /\ text # << >>
    /\ Chars(text) >= MIN_CONTENT_WORDS
    /\ \A k \in 1..Len(text) : Lower(text[k]) \notin { "no useful content", "not found" }

\* FilterModule.filter_insufficient_and_blocked_content: the exception raised
filter_insufficient_and_blocked_content(content, topic) ==
    IF is_search_blocked(content) THEN DefaultError("SearchBlockedError", topic)
    ELSE IF ~ is_sufficient_content(content) THEN DefaultError("InsufficientContentError", topic)
    ELSE NoError

SearchPrefix == "All proxy attempts failed while searching for 'acme'. This indicates a network/proxy infrastructure issue, not that the lead is invalid. "

\* a search that lets the exception of fetch through as it is
search_propagating(c, topic) ==
    IF c.pc = "raised"
    THEN [ c EXCEPT !.op = "search", !.exc = FetchError(c, SearchUrl(topic)) ]
    ELSE [ c EXCEPT !.op = "search" ]

\* Search.search after _fetch: return content, or raise a ProxyFailureError
\* built with the topic and with a text put before str(e)
search(c, topic) ==
    IF c.pc = "raised"
    THEN [ c EXCEPT !.op = "search",
                    !.exc = [ kind |-> "ProxyFailureError", topic |-> topic,
                              message |-> [ FetchError(c, SearchUrl(topic)).message
                                            EXCEPT !.prefix = SearchPrefix ] ] ]
    ELSE [ c EXCEPT !.op = "search" ]

\* what the steps after the first filter do: the scraping and the second
\* filter, then the language model
LaterSteps == { "ok", "InsufficientContentError", "LLMProcessingError", "Exception" }

\* WorkflowFacade.process_topic after the search: the exception it ends with,
\* NoError when it returns the result
process_topic(c, topic, later) ==
    IF c.pc = "raised" THEN c.exc
    ELSE LET e == filter_insufficient_and_blocked_content(c.text, topic)
         IN IF e # NoError THEN e
            ELSE IF later = "ok" THEN NoError
            ELSE DefaultError(later, topic)

Failure(error_type, e, topic, is_infrastructure_error) ==
    [ success |-> FALSE, error_type |-> error_type, message |-> e.message, topic |-> topic,
      is_infrastructure_error |-> is_infrastructure_error ]

\* run_workflow with the handler of the content errors before the one of
\* the proxy failure, and taking both
run_workflow_content_first(e, topic) ==
    CASE e = NoError -> [ NoOutcome EXCEPT !.success = TRUE, !.topic = topic ]
      [] e.kind \in { "InsufficientContentError", "ProxyFailureError" } ->
            Failure("InsufficientContentError", e, topic, "False")
      [] e.kind \in { "SearchFailedError", "SearchBlockedError", "LLMProcessingError" } ->
            Failure(e.kind, e, topic, "absent")
      [] OTHER -> Failure("UnknownError", e, topic, "absent")

\* run_workflow: the dictionary returned for what process_topic did
run_workflow(e, topic) ==
    CASE e = NoError -> [ NoOutcome EXCEPT !.success = TRUE, !.topic = topic ]
      [] e.kind = "ProxyFailureError" -> Failure("ProxyFailureError", e, topic, "True")
      [] e.kind = "InsufficientContentError" ->
            Failure("InsufficientContentError", e, topic, "False")
      [] e.kind \in { "SearchFailedError", "SearchBlockedError", "LLMProcessingError" } ->
            Failure(e.kind, e, topic, "absent")
      [] OTHER -> Failure("UnknownError", e, topic, "absent")

SearchBodies ==
    { << "results" >>, << "results", "about", "the", "company", "acme" >>,
      << "solve", "CAPTCHA" >>, << "company", "profile", "of", "acme", "not found" >> }

SearchResponses ==
    [ kind : { "response" }, status_code : { 200, 503 }, text : SearchBodies ]
    \cup [ kind : { "ProxyError", "Timeout" }, status_code : { 0 }, text : { << >> } ]

\* one iteration of the loop of fetch
SearchAttempt ==
    /\ call.op = "fetch" /\ call.pc = "loop"
    /\ call.attempt < max_retries
    /\ \E d \in Draws(Self, call.prefer_fast), io \in IOs, resp \in SearchResponses :
         LET r == fetch_attempt(Self, call, d, resp, io)
         IN /\ Apply(r.self)
            /\ call' = r.call
            /\ hist' = IF r.call.pc = "loop"
                       THEN Marked(Selected(hist, Self), r.call.used[Len(r.call.used)])
                       ELSE Selected(hist, Self)
    /\ UNCHANGED << PROXIES, disk_ok, using_csv >>

\* fetch has returned or raised: search returns or raises
SearchEnd ==
    /\ call.op = "fetch" /\ call.pc \in { "returned", "raised" }
    /\ call' = search(call, Topic)
    /\ UNCHANGED hist
    /\ PoolUnchanged

\* the rest of process_topic and the return of run_workflow
WorkflowEnd ==
    /\ call.op = "search"
    /\ \E later \in LaterSteps :
         call' = [ call EXCEPT !.op = "run_workflow", !.pc = "done",
                               !.outcome = run_workflow(process_topic(call, Topic, later), Topic) ]
    /\ UNCHANGED hist
    /\ PoolUnchanged

\* run_workflow enters process_topic, search and fetch on the search URL
WorkflowNext ==
    \/ FetchOnce(TRUE)
    \/ SearchAttempt
    \/ FetchExhausted
    \/ SearchEnd
    \/ WorkflowEnd

Workflow == Init /\ [][WorkflowNext]_vars

-----------------------------------------------------------------------------
(* Concurrent calls of fetch on one ProxyManager: two threads call fetch on  *)
(* the module's instance, loaded from a catalogue of one working row.  The   *)
(* methods take no lock, so the threads interleave between any two accesses  *)
(* of the object: counter += 1 is a read and a write, mark_proxy_bad tests,  *)
(* adds, counts, sets the status and persists, and _save_proxies_to_csv      *)
(* goes through its file operations one at a time.  call.tasks holds, for    *)
(* each thread, its position, the value it last read, the number of its      *)
(* attempts and the proxy it uses.  The file operations succeed whenever     *)
(* the files are there.                                                      *)

Threads == { "t1", "t2" }

NewThread == [ pc |-> "load", counter |-> "total_requests", reg |-> 0, attempt |-> 0,
               proxy |-> None ]

ConcurrentInit ==
    /\ LoadedPool
    /\ call = [ NoCall EXCEPT !.op = "fetch", !.pc = "threads",
                              !.tasks = [ t \in Threads |-> NewThread ] ]

ThreadAt(t, pcs) == call.op = "fetch" /\ call.pc = "threads" /\ call.tasks[t].pc \in pcs

\* the thread goes on as record th
Continue(t, th) == call' = [ call EXCEPT !.tasks[t] = th ]

SharedUnchanged == UNCHANGED << PROXIES, disk_ok, using_csv, hist >>

\* where a thread goes after it has written a counter
AfterCount(counter) ==
    CASE counter = "total_requests" -> "attempt"
      [] counter = "successful_requests" -> "returned"
      [] counter = "failed_requests" -> "raised"
      [] OTHER -> "status"

\* self.stats[counter] += 1, first half: the value is read
ReadCounter(t) ==
    /\ ThreadAt(t, { "load" })
    /\ Continue(t, [ call.tasks[t] EXCEPT !.pc = "store",
                                          !.reg = stats[call.tasks[t].counter] ])
    /\ PoolUnchanged
    /\ UNCHANGED hist

\* self.stats[counter] += 1, second half: the value read plus one is stored
WriteCounter(t) ==
    /\ ThreadAt(t, { "store" })
    /\ LET th == call.tasks[t]
       IN /\ Apply([ Self EXCEPT !.stats[th.counter] = th.reg + 1 ])
          /\ Continue(t, [ th EXCEPT !.pc = AfterCount(th.counter) ])
    /\ SharedUnchanged

\* one iteration of the loop: get_proxy, then the request, which succeeds or
\* fails; with no proxy the failure is counted and raised
ThreadAttempt(t) ==
    /\ ThreadAt(t, { "attempt" })
    /\ call.tasks[t].attempt < max_retries
    /\ \E d \in Draws(Self, TRUE), ok \in BOOLEAN :
         LET g == get_proxy(Self, TRUE, d[1], d[2])
             th == call.tasks[t]
         IN /\ Apply(g.self)
            /\ Continue(t,
                 IF Falsy(g.result)
                 THEN [ th EXCEPT !.pc = "load", !.counter = "failed_requests" ]
                 ELSE IF ok
                 THEN [ th EXCEPT !.pc = "load", !.counter = "successful_requests",
                                  !.attempt = @ + 1, !.proxy = g.result ]
                 ELSE [ th EXCEPT !.pc = "mark", !.attempt = @ + 1, !.proxy = g.result ])
    /\ SharedUnchanged

\* all retries exhausted
ThreadExhausted(t) ==
    /\ ThreadAt(t, { "attempt" })
    /\ call.tasks[t].attempt >= max_retries
    /\ Continue(t, [ call.tasks[t] EXCEPT !.pc = "load", !.counter = "failed_requests" ])
    /\ PoolUnchanged
    /\ UNCHANGED hist

\* mark_proxy_bad: if not proxy or proxy in self.bad_proxies: return
MarkTest(t) ==
    /\ ThreadAt(t, { "mark" })
    /\ Continue(t, [ call.tasks[t] EXCEPT !.pc = IF call.tasks[t].proxy \in bad_proxies
                                                 THEN "attempt" ELSE "add" ])
    /\ PoolUnchanged
    /\ UNCHANGED hist

\* self.bad_proxies.add(proxy)
MarkAdd(t) ==
    /\ ThreadAt(t, { "add" })
    /\ Apply([ Self EXCEPT !.bad_proxies = @ \cup { call.tasks[t].proxy } ])
    /\ Continue(t, [ call.tasks[t] EXCEPT !.pc = "load", !.counter = "proxies_marked_bad" ])
    /\ SharedUnchanged

\* the status of the record and of its row, then the start of the save
MarkStatus(t) ==
    /\ ThreadAt(t, { "status" })
    /\ LET th == call.tasks[t]
           k == FirstIndex(proxy_data, th.proxy)
           self1 == IF k # 0 THEN [ Self EXCEPT !.proxy_data[k] = MarkEntryFailed(@) ] ELSE Self
       IN IF MarkPersists(self1, th.proxy)
          THEN LET s == save_begin(self1)
               IN /\ Apply(s.self)
                  /\ Continue(t, [ th EXCEPT !.pc = IF s.pc = "return" THEN "attempt" ELSE s.pc ])
          ELSE Apply(self1) /\ Continue(t, [ th EXCEPT !.pc = "attempt" ])
    /\ SharedUnchanged

\* one file operation of _save_proxies_to_csv.  os.replace fails when the
\* temporary file is no longer there; rows written through a file object
\* whose file was renamed meanwhile land in the catalogue
ThreadSave(t) ==
    /\ ThreadAt(t, { "backup", "open", "write", "replace", "except" })
    /\ LET th == call.tasks[t]
           io == [ UniformIO(TRUE) EXCEPT !.replace_ok = tmp_file.exists ]
           s == save_step(SaveAt(th.pc, Self, FALSE), io)
           renamed == th.pc = "write" /\ ~ tmp_file.exists
       IN /\ Apply(IF renamed
                   THEN [ s.self EXCEPT !.csv_file = s.self.tmp_file, !.tmp_file = NoFile ]
                   ELSE s.self)
          /\ Continue(t, [ th EXCEPT !.pc = IF s.pc = "return" THEN "attempt" ELSE s.pc ])
    /\ SharedUnchanged

ConcurrentNext ==
    \E t \in Threads :
        \/ ReadCounter(t)
        \/ WriteCounter(t)
        \/ ThreadAttempt(t)
        \/ ThreadExhausted(t)
        \/ MarkTest(t)
        \/ MarkAdd(t)
        \/ MarkStatus(t)
        \/ ThreadSave(t)

Concurrent == ConcurrentInit /\ [][ConcurrentNext]_vars

-----------------------------------------------------------------------------
(* The parallel proxy tester: test_proxies_parallel submits one              *)
(* test_single_proxy task per proxy to a pool of max_workers threads and     *)
(* takes the futures as they complete.  A task tests its proxy outside the   *)
(* lock, which gives a result, None or an exception, and updates the shared  *)
(* fields inside "with self.lock", one statement a step.                     *)

TestedProxy(k) == "h" \o ToString(k) \o ":1080"

\* the dictionary test_proxy_multiple_queries returns for a proxy that passed
WorkingResult(proxy) == [ proxy |-> proxy, status |-> "working" ]

\* a task of the executor; its result is << >> for None
SubmittedTest(proxy) == [ proxy |-> proxy, pc |-> "pending", result |-> << >> ]

TaskHolder(k) == "task " \o ToString(k)

\* the threads of the executor that are running a task
Testing(c) == { k \in 1..Len(c.tasks) : c.tasks[k].pc \notin { "pending", "returned", "raised" } }

TesterInit ==
    /\ EmptyPool
    /\ \E n \in 1..MaxProxies, max_workers \in 1..MaxWorkers :
         call = [ NoCall EXCEPT !.op = "test_proxies_parallel", !.pc = "as_completed",
                                !.count = max_workers,
                                !.tasks = [ k \in 1..n |-> SubmittedTest(TestedProxy(k)) ] ]

TesterStep(c) ==
    /\ call' = c
    /\ UNCHANGED hist
    /\ PoolUnchanged

TesterAt(k, pc) ==
    /\ call.op = "test_proxies_parallel"
    /\ k \in 1..Len(call.tasks)
    /\ call.tasks[k].pc = pc

\* a free thread takes the first task of the queue
TestStart(k) ==
    /\ TesterAt(k, "pending")
    /\ \A j \in 1..(k - 1) : call.tasks[j].pc # "pending"
    /\ Cardinality(Testing(call)) < call.count
    /\ TesterStep([ call EXCEPT !.tasks[k].pc = "testing" ])

\* result = self.test_proxy_multiple_queries(proxy, test_per_proxy): a
\* dictionary, None, or an exception that ends the task
TestEnd(k) ==
    /\ TesterAt(k, "testing")
    /\ \/ \E result \in { << WorkingResult(call.tasks[k].proxy) >>, << >> } :
            TesterStep([ call EXCEPT !.tasks[k].pc = "with", !.tasks[k].result = result ])
       \/ TesterStep([ call EXCEPT !.tasks[k].pc = "raised" ])

\* with self.lock, entered without the lock being taken
LockAcquire_unlocked(k) ==
    /\ TesterAt(k, "with")
    /\ TesterStep([ call EXCEPT !.tasks[k].pc = "count" ])

\* with self.lock
LockAcquire(k) ==
    /\ TesterAt(k, "with")
    /\ call.tester.lock = None
    /\ TesterStep([ call EXCEPT !.tasks[k].pc = "count", !.tester.lock = TaskHolder(k) ])

\* self.tested_count += 1
CountTested(k) ==
    /\ TesterAt(k, "count")
    /\ TesterStep([ call EXCEPT !.tasks[k].pc = "append", !.tester.tested_count = @ + 1 ])

\* self.working_proxies.append(result) or self.failed_proxies.append(proxy),
\* and the return, which leaves the with block
AppendResult(k) ==
    /\ TesterAt(k, "append")
    /\ LET t == call.tasks[k]
           c == IF t.result # << >>
                THEN [ call EXCEPT !.tester.working_proxies = Append(@, t.result[1]) ]
                ELSE [ call EXCEPT !.tester.failed_proxies = Append(@, t.proxy) ]
       IN TesterStep([ c EXCEPT !.tasks[k].pc = "returned",
                                !.tester.lock = IF @ = TaskHolder(k) THEN None ELSE @ ])

\* for future in as_completed(...): future.result() returns, or raises what
\* the task raised
NextCompleted(k) ==
    /\ TesterAt(k, call.tasks[k].pc)
    /\ call.pc = "as_completed"
    /\ k \notin call.tester.completed
    /\ call.tasks[k].pc \in { "returned", "raised" }
    /\ TesterStep(IF call.tasks[k].pc = "returned"
                  THEN [ call EXCEPT !.tester.completed = @ \cup { k } ]
                  ELSE [ call EXCEPT !.pc = "with", !.tester.future = k ])

\* except Exception: with self.lock
HandlerAcquire ==
    /\ call.op = "test_proxies_parallel" /\ call.pc = "with"
    /\ call.tester.lock = None
    /\ TesterStep([ call EXCEPT !.pc = "count", !.tester.lock = "main" ])

\* self.tested_count += 1
HandlerCount ==
    /\ call.op = "test_proxies_parallel" /\ call.pc = "count"
    /\ TesterStep([ call EXCEPT !.pc = "append", !.tester.tested_count = @ + 1 ])

\* self.failed_proxies.append(proxy), then the next future
HandlerAppend ==
    /\ call.op = "test_proxies_parallel" /\ call.pc = "append"
    /\ TesterStep([ call EXCEPT !.pc = "as_completed",
                                !.tester.failed_proxies = Append(@, call.tasks[call.tester.future].proxy),
                                !.tester.completed = @ \cup { call.tester.future },
                                !.tester.future = 0,
                                !.tester.lock = None ])

\* the loop has had every future
TestReturn ==
    /\ call.op = "test_proxies_parallel" /\ call.pc = "as_completed"
    /\ call.tester.completed = 1..Len(call.tasks)
    /\ TesterStep([ call EXCEPT !.pc = "done" ])

TesterNext ==
    \/ \E k \in 1..MaxProxies :
        \/ TestStart(k)
        \/ TestEnd(k)
        \/ LockAcquire(k)
        \/ CountTested(k)
        \/ AppendResult(k)
        \/ NextCompleted(k)
    \/ HandlerAcquire
    \/ HandlerCount
    \/ HandlerAppend
    \/ TestReturn

Tester == TesterInit /\ [][TesterNext]_vars

-----------------------------------------------------------------------------
(* Properties *)

AllDraws(self) == UNION { Draws(self, pf) : pf \in BOOLEAN }

Directory(self) == Range(Urls(self.proxy_data))

AllQuarantined(self) ==
    self.proxy_data # << >> /\ Directory(self) \subseteq self.bad_proxies

AnyIO == { UniformIO(ok) : ok \in BOOLEAN }

\* C1: in every reachable state a get_proxy call, whatever it draws, returns
\* None if and only if the directory holds no record; and every direct call
\* made has returned None exactly when the directory it ran on was empty.
C1_NoneIffDirectoryEmpty ==
    /\ \A pf \in BOOLEAN : \A d \in Draws(Self, pf) :
         (get_proxy(Self, pf, d[1], d[2]).result = None) <=> (proxy_data = << >>)
    /\ call.op = "get_proxy" =>
         ((call.result = None) <=> (call.start.proxy_data = << >>))

\* a direct get_proxy call on an empty directory has returned None
C1_Witness ==
    call.op = "get_proxy" /\ call.result = None /\ call.start.proxy_data = << >>

\* C2: when every endpoint of a non-empty directory is quarantined, the next
\* get_proxy call clears the quarantine set and returns an endpoint of the
\* directory, not None.
C2_SelectAfterAllQuarantined ==
    /\ AllQuarantined(Self) =>
         \A d \in AllDraws(Self), pf \in BOOLEAN :
            d \in Draws(Self, pf) =>
              LET g == get_proxy(Self, pf, d[1], d[2])
              IN g.result \in Directory(Self) /\ g.self.bad_proxies = {}
    /\ (call.op = "get_proxy" /\ AllQuarantined(call.start)) =>
         (call.result \in Directory(call.start) /\ bad_proxies = {})

\* mark_proxy_bad left the whole directory quarantined and the get_proxy call
\* that followed returned one of its endpoints
C2_Witness ==
    /\ call.op = "get_proxy"
    /\ AllQuarantined(call.start)
    /\ call.result \in Directory(call.start)
    /\ hist.marked # {}

\* C3 as claimed: in every reachable state with a non-empty directory at least
\* one endpoint is not quarantined.
C3_AlwaysOneAvailable ==
    proxies # << >> => get_available_proxy_count(Self) > 0

\* C3: the quarantine set is cleared by the get_proxy call that finds no
\* candidate, not by mark_proxy_bad: with a non-empty directory, at least one
\* endpoint is not quarantined after construction, after reload_proxies and
\* after every get_proxy call, direct or made by fetch.
C3_OneAvailableAfterSelect ==
    /\ (proxies # << >> /\ call.op \in { "none", "get_proxy", "reload_proxies" })
         => get_available_proxy_count(Self) > 0
    /\ proxies # << >> =>
         \A pf \in BOOLEAN : \A d \in Draws(Self, pf) :
            get_available_proxy_count(get_proxy(Self, pf, d[1], d[2]).self) > 0

\* a get_proxy call on a directory of which a part was quarantined
C3_Witness ==
    /\ call.op = "get_proxy"
    /\ call.start.bad_proxies \cap Directory(call.start) # {}
    /\ ~ AllQuarantined(call.start)
    /\ get_available_proxy_count(Self) > 0

\* C4: mark_proxy_bad(e) twice in a row leaves the object and the catalogue as
\* mark_proxy_bad(e) once, for every argument e and whether or not the file
\* operations succeed; and a call on an endpoint already quarantined has
\* changed nothing.
C4_MarkBadIdempotent ==
    /\ \A e \in MarkArgs \cup { "" }, io1 \in AnyIO, io2 \in AnyIO :
         mark_proxy_bad(mark_proxy_bad(Self, e, io1), e, io2) = mark_proxy_bad(Self, e, io1)
    /\ (call.op = "mark_proxy_bad" /\ call.arg \in call.start.bad_proxies)
         => Self = call.start

\* an endpoint of the directory was marked bad and then marked bad again
C4_Witness ==
    /\ call.op = "mark_proxy_bad"
    /\ call.arg \in call.start.bad_proxies
    /\ call.arg \in Directory(Self)
    /\ stats.proxies_marked_bad = 1

\* C5 as claimed: without a reload, the bad-proxy counter is the number of
\* distinct endpoints that have been marked bad.
C5_CounterIsDistinctMarked ==
    ~ hist.reloaded => stats.proxies_marked_bad = Cardinality(hist.marked)

\* C5: without a reload, the bad-proxy counter is the number of distinct
\* endpoints marked bad as long as the quarantine set has not been cleared by
\* get_proxy; once it has, an endpoint that fails again is counted again, and
\* the counter is at least that number.
C5_CounterIsDistinctUntilCleared ==
    ~ hist.reloaded =>
        /\ stats.proxies_marked_bad >= Cardinality(hist.marked)
        /\ ~ hist.cleared => stats.proxies_marked_bad = Cardinality(hist.marked)

\* two endpoints were marked bad, then one of them was marked bad once more
C5_Witness ==
    /\ ~ hist.reloaded /\ ~ hist.cleared
    /\ call.op = "mark_proxy_bad"
    /\ call.arg \in call.start.bad_proxies
    /\ stats.proxies_marked_bad = 2

\* C6: every fetch call adds one to total_requests at once, and one to exactly
\* one of successful_requests (when it returns) and failed_requests (when it
\* raises, for want of a proxy or of attempts); hence between calls
\* total_requests = successful_requests + failed_requests = the number of calls.
C6_FetchCounters ==
    /\ stats.total_requests = hist.fetches
    /\ stats.total_requests = stats.successful_requests + stats.failed_requests
                              + (IF call.pc = "loop" THEN 1 ELSE 0)
    /\ call.op = "fetch" =>
         LET s0 == call.start.stats
             ds == stats.successful_requests - s0.successful_requests
             df == stats.failed_requests - s0.failed_requests
         IN /\ stats.total_requests = s0.total_requests + 1
            /\ call.pc = "loop" => (ds = 0 /\ df = 0)
            /\ call.pc = "returned" => (ds = 1 /\ df = 0)
            /\ call.pc = "raised" => (ds = 0 /\ df = 1)

\* two fetch calls are over, one returned and one raised
C6_Witness ==
    /\ call.op = "fetch" /\ call.pc = "raised"
    /\ stats.total_requests = 2
    /\ stats.successful_requests = 1
    /\ stats.failed_requests = 1

Distinct(seq) == Cardinality(Range(seq)) = Len(seq)

Exhausted == call.op = "fetch" /\ call.pc = "raised" /\ call.error = "All proxy attempts failed"

AvailableUrls(self) == Directory(self) \ self.bad_proxies

\* C7 as claimed: when the directory holds at least max_retries endpoints and
\* every attempt fails, fetch raises after exactly max_retries attempts on
\* max_retries distinct endpoints, and the bad-proxy counter grows by
\* max_retries.
C7_ExhaustsOnDistinctEndpoints ==
    (Exhausted /\ Cardinality(Directory(call.start)) >= max_retries) =>
        /\ call.attempt = max_retries
        /\ Len(call.used) = max_retries
        /\ Distinct(call.used)
        /\ stats.proxies_marked_bad = call.start.stats.proxies_marked_bad + max_retries

\* C7: the same, for a directory that holds at least max_retries endpoints not
\* quarantined when fetch is called.
C7_ExhaustsOnDistinctAvailable ==
    (Exhausted /\ Cardinality(AvailableUrls(call.start)) >= max_retries) =>
        /\ call.attempt = max_retries
        /\ Len(call.used) = max_retries
        /\ Distinct(call.used)
        /\ Range(call.used) \subseteq AvailableUrls(call.start)
        /\ stats.proxies_marked_bad = call.start.stats.proxies_marked_bad + max_retries

\* fetch has raised after its attempts on a directory with max_retries
\* endpoints, none quarantined at the call
C7_Witness ==
    /\ Exhausted
    /\ Cardinality(AvailableUrls(call.start)) >= max_retries
    /\ call.attempt = max_retries

\* the first fetch of a run, on a catalogue of 3 working proxies, none of them
\* quarantined, against the harness in which one endpoint answers 200 with
\* unblocked HTML and the others answer 503
Scenario3 ==
    /\ call.op = "fetch" /\ call.pc # "loop"
    /\ call.harness # None
    /\ call.start.stats.total_requests = 0
    /\ call.start.bad_proxies = {}
    /\ Len(call.start.proxy_data) = 3
    /\ Cardinality(Directory(call.start)) = 3
    /\ \A k \in 1..3 : /\ call.start.proxy_data[k].row # << >>
                       /\ call.start.proxy_data[k].status = "working"

\* C8 as claimed: in that scenario fetch returns the HTML and ends with
\* total_requests = 1, successful_requests = 1 and exactly 2 endpoints
\* quarantined.
C8_ScenarioTwoQuarantined ==
    Scenario3 =>
        /\ call.pc = "returned" /\ call.text = GoodResponse.text
        /\ stats.total_requests = 1 /\ stats.successful_requests = 1
        /\ Cardinality(bad_proxies) = 2

\* C8: in that scenario fetch returns the HTML and ends with total_requests =
\* 1, successful_requests = 1, no failed request, and quarantined exactly the
\* endpoints selected before the good one: at most 2, and 2 only when the
\* selector picks both failing endpoints first.
C8_ScenarioReturnsHtml ==
    Scenario3 =>
        /\ call.pc = "returned" /\ call.text = GoodResponse.text
        /\ stats.total_requests = 1 /\ stats.successful_requests = 1
        /\ stats.failed_requests = 0
        /\ call.used[Len(call.used)] = call.harness
        /\ bad_proxies = Range(call.used) \ { call.harness }
        /\ Cardinality(bad_proxies) = Len(call.used) - 1
        /\ Cardinality(bad_proxies) <= 2

\* the scenario, with the good endpoint selected last
C8_Witness ==
    Scenario3 /\ call.pc = "returned" /\ Cardinality(bad_proxies) = 2

\* the enabling conditions of the two steps of a fetch call: another iteration,
\* for which get_proxy has a draw and requests.get an outcome, or the end of
\* the loop
CanAttempt ==
    /\ call.attempt < max_retries
    /\ IOs # {}
    /\ \E d \in Draws(Self, call.prefer_fast) :
         Answers(call, get_proxy(Self, call.prefer_fast, d[1], d[2]).result) # {}

CanFinish == call.attempt >= max_retries

\* what holds of a fetch call at each of its positions
FetchProgress ==
    call.op = "fetch" =>
        /\ call.pc \in { "loop", "returned", "raised" }
        /\ call.attempt <= max_retries
        /\ Len(call.used) = call.attempt
        /\ call.pc = "loop" =>
             /\ stats.successful_requests = call.start.stats.successful_requests
             /\ CanAttempt \/ CanFinish
        /\ call.pc = "returned" =>
             /\ call.attempt >= 1
             /\ call.used[call.attempt] \notin bad_proxies
             /\ stats.proxies_marked_bad
                  = call.start.stats.proxies_marked_bad + call.attempt - 1
        /\ call.pc = "raised" =>
             /\ call.error \in { "No proxies available", "All proxy attempts failed" }
             /\ call.error = "All proxy attempts failed" => call.attempt = max_retries

\* the steps of a fetch call: one attempt at a time while it loops, no other
\* call in between, and nothing once it has returned or raised
FetchSteps ==
    /\ call.pc = "loop" =>
         /\ call'.op = "fetch"
         /\ call'.attempt \in { call.attempt, call.attempt + 1 }
         /\ call'.attempt = call.attempt => call'.pc = "raised"
    /\ (call.op = "fetch" /\ call.pc # "loop") =>
         (call'.attempt = 0 /\ call'.used = << >>)

\* C9: a fetch call makes at most max_retries attempts, one after the other,
\* can always take its next step until it has returned a body or raised
\* ProxyFailureError, and ends at its first successful attempt: after a success
\* no endpoint is selected, requested or quarantined by that call.
C9_FetchTerminates == [] FetchProgress /\ [][FetchSteps]_vars

\* fetch has returned at its second attempt
C9_Witness ==
    /\ call.op = "fetch" /\ call.pc = "returned"
    /\ call.attempt = 2
    /\ call.attempt < max_retries

\* C10: on an empty directory fetch raises ProxyFailureError at its first
\* selection: no request is issued, no endpoint is quarantined, total_requests
\* and failed_requests have each grown by one, the other counters have not.
C10_EmptyDirectoryFailsAtOnce ==
    (call.op = "fetch" /\ call.start.proxy_data = << >>) =>
        /\ call.attempt = 0 /\ call.used = << >>
        /\ bad_proxies = call.start.bad_proxies
        /\ stats.total_requests = call.start.stats.total_requests + 1
        /\ stats.proxies_marked_bad = call.start.stats.proxies_marked_bad
        /\ stats.successful_requests = call.start.stats.successful_requests
        /\ call.pc = "loop" => ENABLED FetchAttempt /\ ~ ENABLED FetchExhausted
        /\ call.pc # "loop" =>
             /\ call.pc = "raised" /\ call.error = "No proxies available"
             /\ call.error_total = 0 /\ call.error_available = 0
             /\ stats.failed_requests = call.start.stats.failed_requests + 1

\* fetch has raised on an empty directory
C10_Witness ==
    /\ call.op = "fetch" /\ call.pc = "raised"
    /\ call.start.proxy_data = << >>
    /\ call.error = "No proxies available"

-----------------------------------------------------------------------------
(* Properties of the round trip *)

\* _save_proxies_to_csv is running or has returned
Saving ==
    call.op = "mark_proxy_bad"
        /\ call.pc \in { "backup", "open", "write", "replace", "except", "return" }

OldCatalogue == call.start.csv_file
NewCatalogue == File(RowsOf(proxy_data))

\* what holds of a save whether or not the temporary file could be removed
SaveAtomic ==
    /\ csv_file \in { OldCatalogue, NewCatalogue }
    /\ csv_file # OldCatalogue => (call.pc = "return" /\ call.result = TRUE)
    /\ call.pc = "return" =>
         /\ call.result \in BOOLEAN
         /\ call.result = FALSE => csv_file = OldCatalogue
         /\ call.result = TRUE => (csv_file = NewCatalogue /\ ~ tmp_file.exists)
         /\ (call.io.open_ok /\ call.io.write_ok /\ call.io.replace_ok
                /\ AllWritable(proxy_data))
              => (call.result = TRUE /\ csv_file = NewCatalogue)
         /\ ~ call.io.backup_ok => backup_file = call.start.backup_file
         /\ call.io.backup_ok => backup_file = OldCatalogue

\* C11 as claimed: the catalogue is at every moment of a save the old or the
\* new version; when a step before the replacement or the replacement fails,
\* the catalogue is unchanged, the temporary file is removed and the save
\* returns False; a failed backup does not prevent the rewrite.
C11_PersistAtomicTmpRemoved ==
    Saving =>
        /\ SaveAtomic
        /\ (call.pc = "return" /\ call.result = FALSE) => ~ tmp_file.exists

\* C11: the same, except that the temporary file is removed only if its
\* removal succeeds: a failure of os.remove is swallowed and leaves the
\* partly written temporary file behind.
C11_PersistAtomic ==
    Saving =>
        /\ SaveAtomic
        /\ (call.pc = "return" /\ call.result = FALSE) =>
             /\ call.io.remove_ok => ~ tmp_file.exists
             /\ tmp_file.exists => (call.io.open_ok /\ ~ call.io.remove_ok)

\* the replacement failed after the rows were written: the save returned
\* False, the catalogue is the old one and the temporary file is gone
C11_Witness ==
    /\ Saving /\ call.pc = "return" /\ call.result = FALSE
    /\ call.io.open_ok /\ call.io.write_ok /\ ~ call.io.replace_ok /\ call.io.remove_ok
    /\ AllWritable(proxy_data)
    /\ csv_file = OldCatalogue /\ csv_file # NewCatalogue
    /\ ~ tmp_file.exists

RowUrl(row) == "socks5://" \o RowIp(row) \o ":" \o RowPort(row)

\* C12 as claimed: after a row loaded from any catalogue was marked bad, the
\* catalogue rewritten and reloaded, that row is not in the directory and
\* every other row of the catalogue is in the file, unchanged.
C12_RoundTripKeepsRows ==
    (call.op = "reload_proxies" /\ hist.marked # {} /\ csv_file # hist.origin) =>
        /\ \A u \in hist.marked : u \notin Directory(Self)
        /\ \A k \in 1..Len(hist.origin.rows) :
             RowUrl(hist.origin.rows[k]) \notin hist.marked
                => hist.origin.rows[k] \in Range(csv_file.rows)

\* the directory is the one a load has just built from the catalogue
Loaded == call.op \in { "none", "reload_proxies" }

Sorted(data) ==
    \A i, j \in 1..Len(data) : i < j => data[i].response_time_ms <= data[j].response_time_ms

EligibleRows(file) == { k \in 1..Len(file.rows) : RowEligible(file.rows[k]) }

LoadRaises(file) == \E k \in 1..Len(file.rows) : RowRaises(file.rows[k])

\* C13 as claimed: for every catalogue with a row whose status is working,
\* load returns a non-empty sequence of records in ascending latency.
C13_WorkingRowLoadsSorted ==
    (Loaded /\ \E k \in 1..Len(csv_file.rows) : Get(csv_file.rows[k], "status", "") = "working")
        => (proxy_data # << >> /\ Sorted(proxy_data))

\* C13: for every catalogue with an eligible row (status working, host and
\* port present) whose load raises nothing (no row shorter than the header, no
\* eligible row whose latency is no number), load returns the records of the
\* eligible rows, a non-empty sequence in ascending latency; for any other
\* catalogue it returns the records of the fallback list.
C13_EligibleRowsLoadSorted ==
    Loaded =>
        IF csv_file.exists /\ EligibleRows(csv_file) # {} /\ ~ LoadRaises(csv_file)
        THEN /\ proxy_data # << >>
             /\ Sorted(proxy_data)
             /\ Len(proxy_data) = Cardinality(EligibleRows(csv_file))
             /\ \A i \in 1..Len(proxy_data) :
                  /\ proxy_data[i].row # << >>
                  /\ \E k \in EligibleRows(csv_file) : proxy_data[i].row[1] = csv_file.rows[k]
        ELSE \A i \in 1..Len(proxy_data) : proxy_data[i].row = << >>

\* reload_proxies has read a catalogue whose eligible rows are not in the
\* order of their latencies
C13_Witness ==
    /\ call.op = "reload_proxies"
    /\ Len(proxy_data) >= 2
    /\ \A i \in 1..Len(proxy_data) : proxy_data[i].row # << >>
    /\ ~ Sorted([ k \in 1..Len(csv_file.rows) |->
                    [ response_time_ms |-> RowLatency(csv_file.rows[k]) ] ])
    /\ \A k \in 1..Len(csv_file.rows) : RowEligible(csv_file.rows[k])

\* a row with a host, a port, a latency and the status working
WellFormedWorking(row) ==
    /\ { "ip", "port", "response_time_ms", "status" } \subseteq DOMAIN row
    /\ row.ip \notin { "", None } /\ row.port \notin { "", None }
    /\ row.status = "working"
    /\ row.response_time_ms # Unparsable

\* C14 as claimed: every record loaded from the catalogue comes from a row
\* whose status is working and that has a host and a port, a row without a
\* status value giving none; and a malformed row is skipped, the well-formed
\* working rows of the catalogue being loaded all the same.
C14_OnlyWorkingRowsOthersSkipped ==
    (Loaded /\ csv_file.exists) =>
        /\ \A i \in 1..Len(proxy_data) :
             proxy_data[i].row # << >> =>
                 /\ Get(proxy_data[i].row[1], "status", "") = "working"
                 /\ Get(proxy_data[i].row[1], "ip", "") \notin { "", None }
                 /\ Get(proxy_data[i].row[1], "port", "") \notin { "", None }
        /\ \A k \in 1..Len(csv_file.rows) :
             WellFormedWorking(csv_file.rows[k]) => RowUrl(csv_file.rows[k]) \in Directory(Self)

\* C15 as claimed: the directory holds at most one record per identity.
C15_IdentityUnique == Cardinality(Directory(Self)) = Len(proxy_data)

-----------------------------------------------------------------------------
(* Properties of the pool between reloads *)

\* C16: in every step that is not a reload_proxies call the records stay the
\* same records and a record whose status is failed keeps that status: the
\* status of a record only goes from working to failed.
C16_StatusOnlyFails ==
    [][ call'.op # "reload_proxies" =>
          /\ Len(proxy_data') = Len(proxy_data)
          /\ \A k \in 1..Len(proxy_data) :
               /\ proxy_data'[k].url = proxy_data[k].url
               /\ proxy_data[k].status = "failed" => proxy_data'[k].status = "failed" ]_vars

\* a get_proxy call has cleared the bad proxy list and the record marked
\* before it still has the status failed
C16_Witness ==
    /\ call.op = "get_proxy"
    /\ call.start.bad_proxies # {} /\ bad_proxies = {}
    /\ \E k \in 1..Len(proxy_data) : proxy_data[k].status = "failed"

\* C17: after reload_proxies the bad proxy list is empty, the records are
\* those load builds from the catalogue, all with status working, the value
\* returned is their number and the usage counters are those before the call.
C17_ReloadRebuilds ==
    call.op = "reload_proxies" =>
        /\ bad_proxies = {}
        /\ proxy_data = load_proxies(csv_file, PROXIES)
        /\ proxies = Urls(proxy_data)
        /\ \A k \in 1..Len(proxy_data) : proxy_data[k].status = "working"
        /\ call.count = Len(proxies)
        /\ stats = call.start.stats
        /\ csv_file = call.start.csv_file

\* reload_proxies was called with an endpoint in the bad proxy list, a record
\* with status failed and a counter that is not zero
C17_Witness ==
    /\ call.op = "reload_proxies"
    /\ call.start.bad_proxies # {}
    /\ \E k \in 1..Len(call.start.proxy_data) : call.start.proxy_data[k].status = "failed"
    /\ stats.proxies_marked_bad > 0
    /\ call.count > 0

\* what get_proxy leaves alone in every state
GetProxyFrame ==
    /\ proxy_data = call.start.proxy_data
    /\ proxies = call.start.proxies
    /\ stats = call.start.stats
    /\ csv_file = call.start.csv_file
    /\ tmp_file = call.start.tmp_file
    /\ backup_file = call.start.backup_file

\* C18 as claimed: a get_proxy call leaves the bad proxy list, the records,
\* the usage counters and the catalogue as they were, in every state.
C18_GetProxyNoSideEffect ==
    call.op = "get_proxy" => (GetProxyFrame /\ bad_proxies = call.start.bad_proxies)

\* C18: a get_proxy call leaves the records, the usage counters and the
\* catalogue as they were; it leaves the bad proxy list as it was, except in
\* the state where the directory is not empty and all its endpoints are in
\* the list, where it empties the list.
C18_GetProxyClearsOnlyWhenAllBad ==
    call.op = "get_proxy" =>
        /\ GetProxyFrame
        /\ bad_proxies = IF call.start.proxies # << >> /\ AllQuarantined(call.start)
                         THEN {} ELSE call.start.bad_proxies

\* get_proxy was called with every endpoint in the bad proxy list
C18_Witness ==
    /\ call.op = "get_proxy"
    /\ call.start.proxies # << >> /\ call.start.bad_proxies # {}
    /\ AllQuarantined(call.start)
    /\ bad_proxies = {}
    /\ call.result # None

\* the records get_proxy could choose from, given the bad proxy list as it
\* stands after the call
CandidatesAtReturn ==
    SelectSeq(call.start.proxy_data, LAMBDA p : p.url \notin bad_proxies)

-----------------------------------------------------------------------------
(* Properties of the extraction *)

\* the page holds a block signature in some mix of cases
BlockedPage(html) ==
    \E k \in 1..Len(html) : html[k] \in { "CAPTCHA", "captcha", "Cloudflare", "cloudflare" }

\* C20: extract_links returns the empty sequence for every page that holds a
\* block signature, in whatever case, however many result anchors it has.
C20_BlockedPageNoLinks ==
    (call.op = "extract_links" /\ call.pc = "returned" /\ BlockedPage(call.text))
        => call.links = << >>

\* a page with two result anchors and the signature in upper case was given
\* to extract_links, which returned no link
C20_Witness ==
    /\ call.op = "extract_links" /\ call.pc = "returned"
    /\ call.count >= 1
    /\ \E k \in 1..Len(call.text) : call.text[k] = "CAPTCHA"
    /\ \E k \in 1..Len(call.text) : call.text[k] = RedirectAnchor
    /\ \E k \in 1..Len(call.text) : call.text[k] = PlainAnchor
    /\ ExtractFrom(call.text, 1, << >>, call.count) # << >>
    /\ call.links = << >>

\* the positions of the result anchors that have an href, in document order
QualifyingPositions(html) ==
    SelectSeq([ k \in 1..Len(html) |-> k ],
              LAMBDA k : html[k] \in ResultAnchors /\ Href(html[k]) \notin { None, "" })

\* C21 as claimed: for every page and every max_links, 0 included,
\* extract_links returns at most max_links entries, and they are the first
\* result anchors with an href, in document order.
C21_AtMostMaxLinksInOrder ==
    (call.op = "extract_links" /\ call.pc = "returned") =>
        LET pos == QualifyingPositions(call.text)
        IN /\ Len(call.links) <= call.count
           /\ Len(call.links) <= Len(pos)
           /\ \A j \in 1..Len(call.links) :
                /\ call.links[j].url = extract_real_url(Href(call.text[pos[j]]))
                /\ call.links[j].title = GetText(call.text[pos[j]])

\* C28 as claimed: no two entries returned by extract_links carry the same
\* URL.
C28_LinksDistinctByUrl ==
    (call.op = "extract_links" /\ call.pc = "returned") =>
        \A i, j \in 1..Len(call.links) :
            call.links[i].url = call.links[j].url => i = j


-----------------------------------------------------------------------------
(* Properties of the attempts of fetch *)

\* a request was made in the last step of the fetch call
AttemptMade ==
    call.op = "fetch" /\ call.resp.kind # "none" /\ call.pc \in { "loop", "returned" }

LastUsed == call.used[Len(call.used)]

\* the attempt ended the call with the body of the response and did not
\* quarantine its endpoint
AttemptSucceeded ==
    /\ call.pc = "returned"
    /\ call.text = call.resp.text
    /\ LastUsed \notin bad_proxies

\* the attempt quarantined its endpoint and left the call in its loop
AttemptFailed ==
    /\ call.pc = "loop"
    /\ LastUsed \in bad_proxies

\* C25 as claimed: a response with a status of the 2xx class and an unblocked
\* body is returned without quarantining the endpoint; a response with any
\* other status quarantines the endpoint and leaves the call to its next
\* attempt.
C25_SuccessIsAny2xx ==
    (AttemptMade /\ call.resp.kind = "response") =>
        /\ (call.resp.status_code \div 100 = 2 /\ ~ is_search_blocked(call.resp.text))
             => AttemptSucceeded
        /\ call.resp.status_code \div 100 # 2 => AttemptFailed

\* C25: a response with status 200 and an unblocked body is returned without
\* quarantining the endpoint; a response with any other status, of the 2xx
\* class or not, quarantines the endpoint and leaves the call to its next
\* attempt with last_error "HTTP <status>".
C25_SuccessIs200 ==
    (AttemptMade /\ call.resp.kind = "response") =>
        /\ (call.resp.status_code = 200 /\ ~ is_search_blocked(call.resp.text))
             => AttemptSucceeded
        /\ call.resp.status_code # 200 =>
             (AttemptFailed /\ call.last_error = HttpError(call.resp.status_code))

\* an endpoint answered 204 with an unblocked body and was quarantined
C25_Witness ==
    /\ AttemptMade /\ call.resp.kind = "response"
    /\ call.resp.status_code = 204 /\ ~ is_search_blocked(call.resp.text)
    /\ AttemptFailed
    /\ call.last_error = "HTTP 204"

RequestFailed ==
    \/ call.resp.kind # "response"
    \/ call.resp.status_code # 200
    \/ call.url_ddg /\ is_search_blocked(call.resp.text)

\* C27: every failed attempt, whatever its kind, quarantines the endpoint it
\* used and leaves the call in its loop, where the next attempt follows while
\* one is left and ProxyFailureError is raised otherwise; fetch raises nothing
\* but its two ProxyFailureErrors.
C27_FailedAttemptQuarantines ==
    call.op = "fetch" =>
        /\ (AttemptMade /\ RequestFailed) =>
             /\ AttemptFailed
             /\ call.attempt < max_retries => CanAttempt
             /\ call.attempt >= max_retries => CanFinish
        /\ call.pc = "raised" =>
             call.error \in { "All proxy attempts failed", "No proxies available" }
        /\ (call.pc = "raised" /\ call.error = "All proxy attempts failed") =>
             call.attempt = max_retries

\* requests.get raised an exception outside the three classes fetch names; the
\* endpoint was quarantined and an attempt is left
C27_Witness ==
    /\ AttemptMade /\ call.resp.kind = "Exception"
    /\ AttemptFailed
    /\ call.attempt < max_retries
    /\ call.last_error = "Exception"


-----------------------------------------------------------------------------
(* Properties of a page fetch *)

\* the request ended in a timeout: session.get raised it, or the reading of
\* the body of a response that passed the checks did
EndedInTimeout(r) ==
    \/ r.kind = "Timeout"
    \/ /\ r.kind = "response" /\ r.status_code = 200 /\ r.read = "Timeout"
       /\ r.content_length \in { NoContentLength, MaxContentLength }

\* the request gave a page: status 200, no oversized or unreadable declared
\* length, the body read
GavePage(r) ==
    /\ r.kind = "response" /\ r.status_code = 200 /\ r.read = "ok"
    /\ r.content_length \in { NoContentLength, MaxContentLength }

\* C30: a page fetch makes one request or two; the second is made exactly
\* when the first ended in a timeout; the fetch returns the body of its last
\* request if that request gave a page and the empty text after any other
\* outcome, and raises nothing.
C30_RetryOnlyAfterTimeout ==
    (call.op = "fetch_with_session" /\ call.pc = "returned") =>
        LET r1 == call.plan[1]
            r2 == call.plan[2]
        IN /\ Len(call.requests) \in { 1, 2 }
           /\ call.requests[1] = r1
           /\ Len(call.requests) = 2 <=> EndedInTimeout(r1)
           /\ Len(call.requests) = 2 => call.requests[2] = r2
           /\ call.text = LET last == call.requests[Len(call.requests)]
                          IN IF GavePage(last) THEN last.text ELSE << >>

\* the first request timed out and the retry was refused the connection: two
\* requests, the empty text
C30_Witness ==
    /\ call.op = "fetch_with_session" /\ call.pc = "returned"
    /\ call.plan[1].kind = "Timeout"
    /\ call.plan[2].kind = "ConnectionError"
    /\ Len(call.requests) = 2
    /\ call.text = << >>


\* the response declares a length above the limit
Oversized(r) ==
    r.kind = "response" /\ r.content_length \notin { NoContentLength, InvalidLength }
                        /\ r.content_length > MaxContentLength

\* C31: at the first request and at the retry, a response that declares more
\* than 2,000,000 bytes is the last request of the fetch, its body is not
\* read and the fetch returns the empty text, whatever the status; a
\* response of status 200 that declares exactly 2,000,000 bytes or declares
\* no length has its body read and, if the read succeeds, returned.
C31_OversizedAbandoned ==
    (call.op = "fetch_with_session" /\ call.pc = "returned") =>
        \A i \in 1..Len(call.requests) :
            LET r == call.requests[i]
            IN /\ Oversized(r) =>
                    /\ ~ call.reads[i]
                    /\ i = Len(call.requests)
                    /\ call.text = << >>
               /\ (/\ r.kind = "response" /\ r.status_code = 200
                   /\ r.content_length \in { NoContentLength, MaxContentLength }) =>
                    /\ call.reads[i]
                    /\ (r.read = "ok" => i = Len(call.requests) /\ call.text = r.text)

\* the first request timed out and the retry was answered 200 with a page
\* declared one byte above the limit
C31_Witness ==
    /\ call.op = "fetch_with_session" /\ call.pc = "returned"
    /\ Len(call.requests) = 2
    /\ call.requests[1].kind = "Timeout"
    /\ Oversized(call.requests[2])
    /\ call.requests[2].status_code = 200 /\ call.requests[2].text # << >>
    /\ call.reads = << FALSE, FALSE >>
    /\ call.text = << >>

-----------------------------------------------------------------------------
(* Properties of the extraction of the content of a page *)

ContentExtracted == call.op = "extract_relevant_content" /\ call.pc = "returned"

\* the positions of the trace at which selector n looked at an element
ScannedBy(c, n) == { i \in 1..Len(c.scanned) : c.scanned[i].selector = n }

\* the text qualifies: it is the text of an element looked at that has at
\* least 10 characters, is not navigational and holds a keyword
Qualifying(c, text) ==
    \E i \in 1..Len(c.scanned) :
        LET el == c.scanned[i].node
        IN /\ el.text = text
           /\ el.len >= 10
           /\ ~ (el.words >= 5 /\ el.nav_phrase)
           /\ el.keyword

\* the length of a text of the page
LenOf(html, text) == (CHOOSE k \in 1..Len(html) : html[k].text = text)

RECURSIVE Accumulated(_, _)
Accumulated(html, texts) ==
    IF texts = << >> THEN 0
    ELSE html[LenOf(html, Head(texts))].len + Accumulated(html, Tail(texts))

\* C32: extract_relevant_content scans the selectors in priority order and
\* the elements of each in document order; every fragment of the output is
\* the text of a scanned element with at least 10 characters, not
\* navigational and holding a keyword; no text is in the output twice, also
\* when a later selector matches the same elements again; and the element
\* with which the accumulated length reaches the budget is the last one
\* scanned, no later selector being scanned, while below the budget every
\* selector is scanned to its end.
C32_PriorityDedupBudget ==
    ContentExtracted =>
        LET html == call.text
            c == call.content
            total == Accumulated(html, c.fragments)
        IN /\ \A i, j \in 1..Len(c.scanned) :
                i < j => c.scanned[i].selector <= c.scanned[j].selector
           /\ \A n \in 1..Len(content_selectors) :
                LET matched == Select(html, content_selectors[n])
                    at == ScannedBy(c, n)
                IN /\ Cardinality(at) <= Len(matched)
                   /\ \A i \in at :
                        c.scanned[i].node = matched[Cardinality({ j \in at : j <= i })]
           /\ \A k \in 1..Len(c.fragments) : Qualifying(c, c.fragments[k])
           /\ \A k, l \in 1..Len(c.fragments) : c.fragments[k] = c.fragments[l] => k = l
           /\ total >= max_chars =>
                /\ c.scanned[Len(c.scanned)].node.text = c.fragments[Len(c.fragments)]
                /\ total - html[LenOf(html, c.fragments[Len(c.fragments)])].len < max_chars
           /\ (total < max_chars /\ html # << >>) =>
                \A n \in 1..Len(content_selectors) :
                    Cardinality(ScannedBy(c, n)) = Len(Select(html, content_selectors[n]))

\* a page whose main paragraph and article paragraph reach the budget, so
\* that the paragraph outside them is never looked at
C32_Witness ==
    /\ ContentExtracted
    /\ Len(call.text) = 3
    /\ call.content.fragments = << "services", "clients" >>
    /\ call.content.length = max_chars
    /\ Len(call.content.scanned) = 2

-----------------------------------------------------------------------------
(* Properties of the scraping of a list of links *)

Scraped == call.op = "scrape_links_content" /\ call.pc = "returned"

\* the positions of the links to url u, of the tasks that gave a page of u,
\* and of the pages of u in the result
LinksTo(c, u) == { k \in 1..Len(c.links) : c.links[k].url = u }
PageTasks(c, u) == { k \in LinksTo(c, u) : c.tasks[k].page # << >> }
PagesOf(c, u) == { i \in 1..Len(c.pages) : c.pages[i].url = u }

\* C22: scrape_links_content returns pages whose URLs are URLs of input
\* links, at most one page per input link, each with a content that is not
\* empty and no longer than the budget of 2000 characters; a link whose fetch
\* failed or whose page gave no qualifying content has no page in the result.
C22_PagesOfInputLinks ==
    Scraped =>
        /\ \A i \in 1..Len(call.pages) :
             /\ \E k \in 1..Len(call.links) : call.pages[i].url = call.links[k].url
             /\ call.pages[i].content.length >= 1
             /\ call.pages[i].content.length <= max_chars
        /\ \A u \in { "u1", "u2" } :
             /\ Cardinality(PagesOf(call, u)) <= Cardinality(LinksTo(call, u))
             /\ Cardinality(PagesOf(call, u)) = Cardinality(PageTasks(call, u))

\* two links were scraped: one gave a page cut at the budget, the other's
\* task gave none
C22_Witness ==
    /\ Scraped
    /\ Len(call.links) = 2
    /\ Len(call.pages) = 1
    /\ call.pages[1].content.length = max_chars
    /\ \E k \in 1..2 : call.tasks[k].page = << >> /\ ~ call.tasks[k].raised

\* the positions of the tasks that produced a page
Producers(c) == { k \in 1..Len(c.tasks) : c.tasks[k].page # << >> }

\* C29: scrape_links_content starts one task per link, runs at most
\* min(max_workers, number of links) of them at once, returns only when
\* every task has finished or failed, lets no exception of a task out of the
\* call or stop the other tasks, and returns exactly the pages of the tasks
\* that produced one.
C29_FanOutFanIn ==
    call.op = "scrape_links_content" =>
        /\ call.pc \in { "called", "pool", "returned" }
        /\ call.pc = "pool" =>
             /\ Len(call.tasks) = Len(call.links)
             /\ Cardinality(Running(call)) <= Min(call.count, Len(call.links))
        /\ call.pc = "returned" =>
             /\ Len(call.tasks) = Len(call.links)
             /\ \A k \in 1..Len(call.tasks) : call.tasks[k].state = "collected"
             /\ Len(call.pages) = Cardinality(Producers(call))
             /\ \E f \in [ 1..Len(call.pages) -> Producers(call) ] :
                  /\ \A i, j \in 1..Len(call.pages) : f[i] = f[j] => i = j
                  /\ \A i \in 1..Len(call.pages) : call.pages[i] = call.tasks[f[i]].page[1]

\* the call returned the page of one task although another task raised
C29_Witness ==
    /\ Scraped
    /\ Len(call.links) = 2
    /\ \E k \in 1..2 : call.tasks[k].raised
    /\ Len(call.pages) = 1


-----------------------------------------------------------------------------
(* Properties of the workflow *)

SearchRaised == call.op = "search" /\ call.pc = "raised"

C24_ProxyFailureIsInfrastructure ==
    (call.op = "run_workflow" /\ (call.error # None \/ call.exc.kind = "ProxyFailureError")) =>
        /\ ~ call.outcome.success
        /\ call.outcome.error_type = "ProxyFailureError"
        /\ call.outcome.is_infrastructure_error = "True"
        /\ call.outcome.topic = Topic

\* run_workflow returned after a search whose fetch used up its retries
C24_Witness ==
    /\ call.op = "run_workflow"
    /\ call.error = "All proxy attempts failed"
    /\ call.attempt = max_retries
    /\ call.outcome.error_type = "ProxyFailureError"

-----------------------------------------------------------------------------
(* Properties of concurrent calls of fetch *)

ThreadsDone == call.pc = "threads" /\ \A t \in Threads : call.tasks[t].pc \in { "returned", "raised" }

\* the thread is inside mark_proxy_bad, past its test
Marking(t) ==
    \/ call.tasks[t].pc \in { "add", "status", "backup", "open", "write", "replace", "except" }
    \/ call.tasks[t].pc \in { "load", "store" } /\ call.tasks[t].counter = "proxies_marked_bad"

\* the thread has the temporary file open for writing
Writing(t) == call.tasks[t].pc \in { "write", "replace" }

\* the attempts of the thread that failed
FailedAttempts(t) ==
    call.tasks[t].attempt - (IF call.tasks[t].pc = "returned" THEN 1 ELSE 0)

NoIncrementLost ==
    ThreadsDone =>
        /\ stats.total_requests = Cardinality(Threads)
        /\ stats.successful_requests + stats.failed_requests = Cardinality(Threads)
        /\ stats.proxies_marked_bad = FailedAttempts("t1") + FailedAttempts("t2")

NoInterleavedMark ==
    call.pc = "threads" => ~ (Marking("t1") /\ Marking("t2"))

NoTwoWriters ==
    call.pc = "threads" => ~ (Writing("t1") /\ Writing("t2"))

\* C33: with two fetch calls running at once on one ProxyManager, no counter
\* increment is lost and the final counters are those of the calls made one
\* after the other, no two mark-bad and persist sequences interleave, and no
\* two writers have the temporary catalogue file open at once.
C33_MutationSerialized == NoIncrementLost /\ NoInterleavedMark /\ NoTwoWriters
-----------------------------------------------------------------------------
(* Properties of the scraper and the pool *)

\* C34 as stated: every page is fetched by a fetch call on the pool, so
\* scraping N links raises the counter of requests by N and a failed page
\* fetch quarantines an endpoint.
C34_ScrapeThroughPool ==
    Scraped =>
        /\ stats.total_requests = call.start.stats.total_requests + Len(call.links)
        /\ (\E k \in 1..Len(call.tasks) : call.tasks[k].page = << >>) => bad_proxies # {}

\* C34: every page is fetched by direct requests through the session of its
\* task; scraping makes no fetch call on the pool, so the counters, the
\* quarantine set and the directory are as before the call, whatever the
\* page fetches did.
C34_ScrapeBypassesPool ==
    call.op = "scrape_links_content" =>
        /\ stats = call.start.stats
        /\ bad_proxies = call.start.bad_proxies
        /\ proxy_data = call.start.proxy_data
        /\ csv_file = call.start.csv_file

\* two links were scraped with a pool of one endpoint, one page fetch gave
\* nothing, and no request was counted and nothing quarantined
C34_Witness ==
    /\ Scraped
    /\ Len(call.links) = 2
    /\ \E k \in 1..2 : call.tasks[k].page = << >> /\ ~ call.tasks[k].raised
    /\ Len(proxies) = 1
    /\ stats.total_requests = 0
    /\ bad_proxies = {}
-----------------------------------------------------------------------------
(* Properties of the endpoints of one fetch call *)

\* C35: within one fetch call, the first attempts, as many as there were
\* endpoints outside the quarantine set when the call began, use pairwise
\* distinct endpoints with no clearing of the set; and whenever two attempts
\* of the call use the same endpoint, the quarantine set was cleared by the
\* selection of an attempt after the first of the two, up to the second.
C35_DistinctUntilCleared ==
    call.op = "fetch" =>
        LET n == Cardinality(AvailableUrls(call.start))
        IN /\ Len(call.clears) = Len(call.used)
           /\ \A i, j \in 1..Len(call.used) :
                (i < j /\ j <= n) => call.used[i] # call.used[j]
           /\ \A j \in 1..Len(call.used) : j <= n => ~ call.clears[j]
           /\ \A i, j \in 1..Len(call.used) :
                (i < j /\ call.used[i] = call.used[j]) =>
                    \E k \in (i + 1)..j : call.clears[k]

\* a fetch on a directory with two endpoints outside the quarantine set made
\* three attempts, the third on an endpoint already used, after a clearing
C35_Witness ==
    /\ call.op = "fetch"
    /\ Cardinality(AvailableUrls(call.start)) = 2
    /\ Len(call.used) = 3
    /\ call.used[1] # call.used[2]
    /\ call.used[3] \in { call.used[1], call.used[2] }
    /\ call.clears = << FALSE, FALSE, TRUE >>

-----------------------------------------------------------------------------
(* Properties of the status of the records and the bad proxy list *)

\* the record of the pool with the given url
RecordOf(url) == proxy_data[FirstIndex(proxy_data, url)]

\* a record has the status failed exactly if its url is in the bad proxy list
C36_StatusAgreesWithQuarantine ==
    \A k \in 1..Len(proxy_data) :
        proxy_data[k].status = "failed" <=> proxy_data[k].url \in bad_proxies

\* C36: every record whose url is in the bad proxy list has the status
\* failed; a record with the status failed whose url is not in the list, and
\* a get_proxy call that returns the url of a record with the status failed,
\* occur only after get_proxy has cleared the list.
C36_QuarantinedIsFailed ==
    /\ \A k \in 1..Len(proxy_data) :
         /\ proxy_data[k].url \in bad_proxies => proxy_data[k].status = "failed"
         /\ proxy_data[k].status = "failed" /\ proxy_data[k].url \notin bad_proxies
              => hist.cleared
    /\ call.op = "get_proxy" /\ call.result # None /\ ~ hist.cleared
         => RecordOf(call.result).status = "working"

\* a get_proxy call has cleared the bad proxy list and returned the url of a
\* record whose status is failed
C36_Witness ==
    /\ call.op = "get_proxy" /\ call.result # None
    /\ call.start.bad_proxies # {} /\ bad_proxies = {}
    /\ RecordOf(call.result).status = "failed"


-----------------------------------------------------------------------------
(* Properties of the bad proxy list and the directory *)

\* C37: the bad proxy list holds urls of the records of the pool only, and a
\* mark_proxy_bad call on a url that no record has leaves the pool, its bad
\* proxy list and its counters as they were.
C37_QuarantineWithinDirectory ==
    /\ bad_proxies \subseteq Directory(Self)
    /\ call.op = "mark_proxy_bad" /\ call.arg \notin Directory(call.start)
         => Self = call.start


-----------------------------------------------------------------------------
(* Properties of the filter that follows the search *)

-----------------------------------------------------------------------------
(* Properties of the catalogue after mark_proxy_bad *)

\* the records of the pool that were loaded from the catalogue
CatalogueRecords(data) == SelectSeq(data, LAMBDA p : p.row # << >>)

\* mark_proxy_bad has returned after it marked a record loaded from the
\* catalogue and _save_proxies_to_csv returned True
MarkPersisted ==
    /\ call.op = "mark_proxy_bad" /\ call.pc \in { "done", "return" }
    /\ ~ Falsy(call.arg) /\ call.arg \notin call.start.bad_proxies
    /\ LET self2 == mark_entry_bad(call.start, call.arg)
       IN /\ MarkPersists(self2, call.arg)
          /\ \E io \in EveryIO :
               LET r == save_proxies_to_csv(self2, io)
               IN r.result /\ r.self = Self

-----------------------------------------------------------------------------
(* Properties of the parallel proxy tester *)

\* the number of times the proxy is in the two lists
TimesCounted(proxy) ==
    Cardinality({ i \in 1..Len(call.tester.working_proxies) :
                    call.tester.working_proxies[i].proxy = proxy })
    + Cardinality({ i \in 1..Len(call.tester.failed_proxies) :
                      call.tester.failed_proxies[i] = proxy })

====
